---- MODULE Spec2Model ----
(***************************************************************************)
(* Finite-element thermal-bridge engine (femCalculations): generateMesh,   *)
(* findJunctions, findMaterialAtPoint and solveHeatTransfer.               *)
(*                                                                         *)
(* JavaScript numbers are modelled as exact rationals <<n, d>> with d > 0  *)
(* in lowest terms, extended by the IEEE special values the code can       *)
(* produce: <<0, 0>> is NaN, <<1, 0>> is +Infinity, <<-1, 0>> is           *)
(* -Infinity.  <<0, -1>> is the JavaScript value undefined (a missing      *)
(* property); ToNumber turns it into NaN where the code does arithmetic on *)
(* it.  Rounding of finite values and the sign of zero are not modelled.   *)
(*                                                                         *)
(* Intermediate results are passed as operator arguments rather than       *)
(* bound by LET, so each is evaluated once.                                *)
(***************************************************************************)
EXTENDS Integers, Sequences, FiniteSets, TLC

(***************************************************************************)
(* Numbers                                                                 *)
(***************************************************************************)
AbsInt(n) == IF n < 0 THEN -n ELSE n

RECURSIVE GCD(_, _)
GCD(a, b) == IF b = 0 THEN a ELSE GCD(b, a % b)

Reduce(n, d, g) == <<n \div g, d \div g>>

\* the rational n/d (d # 0) in lowest terms with a positive denominator
Rat(n, d) ==
    IF d = 1 THEN <<n, 1>>
    ELSE IF d < 0 THEN Reduce(-n, -d, GCD(AbsInt(n), -d))
    ELSE Reduce(n, d, GCD(AbsInt(n), d))

Num(n) == <<n, 1>>
NaN == <<0, 0>>
PosInf == <<1, 0>>
NegInf == <<-1, 0>>
Undefined == <<0, -1>>
\* the null that JSON.parse gives for the token null
Null == <<0, -2>>
Zero == <<0, 1>>

IsNaN(a) == a[2] = 0 /\ a[1] = 0
IsFinite(a) == a[2] > 0
IsUndefined(a) == a[2] < 0
Sign(a) == IF a[1] > 0 THEN 1 ELSE IF a[1] < 0 THEN -1 ELSE 0

\* undefined coerces to NaN in arithmetic
ToNumber(a) == IF IsUndefined(a) THEN NaN ELSE a

\* JavaScript truthiness of a number-or-undefined: 0, NaN and undefined are falsy
Truthy(a) == ~IsUndefined(a) /\ ~IsNaN(a) /\ a # Zero

Neg(a) == <<-a[1], a[2]>>

AddOver(a, b, g) ==
    Rat(a[1] * (b[2] \div g) + b[1] * (a[2] \div g), (a[2] \div g) * b[2])

Add(a, b) ==
    IF IsFinite(a) /\ IsFinite(b)
      THEN IF a[2] = b[2] THEN Rat(a[1] + b[1], a[2])
           ELSE AddOver(a, b, GCD(a[2], b[2]))
    ELSE IF IsNaN(a) \/ IsNaN(b) THEN NaN
    ELSE IF IsFinite(a) THEN b
    ELSE IF IsFinite(b) THEN a
    ELSE IF a = b THEN a ELSE NaN

Sub(a, b) == Add(a, Neg(b))

MulOver(a, b, g1, g2) ==
    Rat((a[1] \div g1) * (b[1] \div g2), (a[2] \div g2) * (b[2] \div g1))

Mul(a, b) ==
    IF IsFinite(a) /\ IsFinite(b)
      THEN IF a[2] = 1 /\ b[2] = 1 THEN <<a[1] * b[1], 1>>
           ELSE MulOver(a, b, GCD(AbsInt(a[1]), b[2]), GCD(AbsInt(b[1]), a[2]))
    ELSE IF IsNaN(a) \/ IsNaN(b) THEN NaN
    ELSE IF Sign(a) * Sign(b) = 0 THEN NaN
    ELSE <<Sign(a) * Sign(b), 0>>

\* 1/b for finite b # 0
Inverse(b) == IF b[1] < 0 THEN <<-b[2], -b[1]>> ELSE <<b[2], b[1]>>

Div(a, b) ==
    IF IsNaN(a) \/ IsNaN(b) THEN NaN
    ELSE IF IsFinite(a) /\ IsFinite(b)
      THEN IF b[1] = 0 THEN (IF a[1] = 0 THEN NaN ELSE <<Sign(a), 0>>)
           ELSE Mul(a, Inverse(b))
    ELSE IF IsFinite(a) THEN Zero
    ELSE IF IsFinite(b) THEN <<Sign(a) * (IF b[1] < 0 THEN -1 ELSE 1), 0>>
    ELSE NaN

\* an integer with the sign of a - b, for finite a and b
CrossDiffOver(a, b, g) == a[1] * (b[2] \div g) - b[1] * (a[2] \div g)
CrossDiff(a, b) ==
    IF a[2] = b[2] THEN a[1] - b[1] ELSE CrossDiffOver(a, b, GCD(a[2], b[2]))

\* a < b and a <= b as JavaScript compares numbers: false when either is NaN
Lt(a, b) ==
    /\ ~IsNaN(a)
    /\ ~IsNaN(b)
    /\ IF IsFinite(a) /\ IsFinite(b) THEN CrossDiff(a, b) < 0
       ELSE a # b /\ (a = NegInf \/ b = PosInf)

Le(a, b) ==
    /\ ~IsNaN(a)
    /\ ~IsNaN(b)
    /\ IF IsFinite(a) /\ IsFinite(b) THEN CrossDiff(a, b) <= 0
       ELSE a = b \/ a = NegInf \/ b = PosInf

Gt(a, b) == Lt(b, a)
Ge(a, b) == Le(b, a)

MathAbs(a) == <<AbsInt(a[1]), a[2]>>
MathMin(a, b) == IF IsNaN(a) \/ IsNaN(b) THEN NaN ELSE IF Lt(b, a) THEN b ELSE a
MathMax(a, b) == IF IsNaN(a) \/ IsNaN(b) THEN NaN ELSE IF Lt(a, b) THEN b ELSE a

\* Math.ceil: the least integer >= a; NaN and the infinities map to themselves
MathCeil(a) == IF IsFinite(a) THEN <<-((-a[1]) \div a[2]), 1>> ELSE a

\* Math.round: the integer nearest to a, a half going up; NaN and the
\* infinities map to themselves
MathRound(a) == IF IsFinite(a) THEN <<(2 * a[1] + a[2]) \div (2 * a[2]), 1>> ELSE a

Sq(a) == Mul(a, a)

(***************************************************************************)
(* Model bounds, program constants, materials                              *)
(***************************************************************************)
\* maxIterations ranges over 1..MaxIterationsBound
MaxIterationsBound == 2
\* drawn rectangles are 1..MaxWidth mm wide
MaxWidth == 1

\* margin = meshSize * 5 and refinementRadius = meshSize * 5
MarginFactor == 5
RefinementRadiusFactor == 5

JunctionTolerance == Rat(1, 2)
EdgeTolerance == Rat(1, 1000)

Beton == [name |-> "Beton", thermalConductivity |-> Rat(23, 10)]
Isolation == [name |-> "Isolation", thermalConductivity |-> Rat(35, 1000)]
Air == [name |-> "Air", thermalConductivity |-> Rat(25, 1000)]
\* a material whose conductivity the user has set to 1 W/(m.K)
UnitLambda == [name |-> "Lambda1", thermalConductivity |-> Num(1)]
\* properties.material absent; also stands for the null of findMaterialAtPoint
NoMaterial == [name |-> "none", thermalConductivity |-> Undefined]

Pt(x, y) == [x |-> x, y |-> y]
Rect(p1, p2, m) == [type |-> "rectangle", points |-> <<p1, p2>>, material |-> m]
Line(p1, p2) == [type |-> "line", points |-> <<p1, p2>>, material |-> NoMaterial]

(***************************************************************************)
(* findJunctions, findMaterialAtPoint                                      *)
(***************************************************************************)
\* sqrt(dx^2 + dy^2) < r, decided as dx^2 + dy^2 < r^2 (r >= 0)
DistLt(x1, y1, x2, y2, r) == Lt(Add(Sq(Sub(x1, x2)), Sq(Sub(y1, y2))), Sq(r))

\* |a - b| < r for finite a, b, r (TRUE otherwise: the caller then decides)
MaybeWithin(a, b, r) ==
    IF IsFinite(a) /\ IsFinite(b) /\ IsFinite(r)
    THEN AbsInt(a[1] * b[2] - b[1] * a[2]) * r[2] < r[1] * a[2] * b[2]
    ELSE TRUE

\* junctions.some(junction => distance(junction, p) < tolerance)
HasJunctionNear(junctions, p) ==
    \E k \in 1..Len(junctions) :
        DistLt(junctions[k].x, junctions[k].y, p.x, p.y, JunctionTolerance)

\* JunctionStep without the isNew test; C25 must reject it
JunctionStepWithoutIsNew(junctions, point1, point2) ==
    IF DistLt(point1.x, point1.y, point2.x, point2.y, JunctionTolerance)
    THEN Append(junctions, Pt(point1.x, point1.y))
    ELSE junctions

\* the body of the innermost loop, for point1 of element1 and point2 of element2
JunctionStep(junctions, point1, point2) ==
    IF /\ DistLt(point1.x, point1.y, point2.x, point2.y, JunctionTolerance)
       /\ ~HasJunctionNear(junctions, point1)
    THEN Append(junctions, Pt(point1.x, point1.y))
    ELSE junctions

RECURSIVE JunctionPoints(_, _, _, _, _)
JunctionPoints(junctions, element1, element2, a, b) ==
    IF a > Len(element1.points) THEN junctions
    ELSE IF b > Len(element2.points)
      THEN JunctionPoints(junctions, element1, element2, a + 1, 1)
    ELSE JunctionPoints(
             JunctionStep(junctions, element1.points[a], element2.points[b]),
             element1, element2, a, b + 1)

RECURSIVE JunctionPairs(_, _, _, _)
JunctionPairs(junctions, elements, i, j) ==
    IF i > Len(elements) THEN junctions
    ELSE IF j > Len(elements) THEN JunctionPairs(junctions, elements, i + 1, i + 2)
    ELSE JunctionPairs(JunctionPoints(junctions, elements[i], elements[j], 1, 1),
                       elements, i, j + 1)

findJunctions(elements) == JunctionPairs(<<>>, elements, 1, 2)

\* minX <= point.x <= maxX and minY <= point.y <= maxY for the rectangle p1, p2
InRect(point, p1, p2) ==
    /\ Ge(point.x, MathMin(p1.x, p2.x))
    /\ Le(point.x, MathMax(p1.x, p2.x))
    /\ Ge(point.y, MathMin(p1.y, p2.y))
    /\ Le(point.y, MathMax(p1.y, p2.y))

\* element.type === 'rectangle' && element.properties.material, and the point
\* lies within the rectangle (edges included)
RegionContains(element, point) ==
    /\ element.type = "rectangle"
    /\ element.material # NoMaterial
    /\ InRect(point, element.points[1], element.points[2])

\* FindMaterialFrom with the last containing element winning; C9 must reject it
RECURSIVE FindMaterialLast(_, _, _)
FindMaterialLast(elements, point, k) ==
    IF k > Len(elements) THEN NoMaterial
    ELSE IF FindMaterialLast(elements, point, k + 1) # NoMaterial
      THEN FindMaterialLast(elements, point, k + 1)
    ELSE IF RegionContains(elements[k], point) THEN elements[k].material
    ELSE NoMaterial

RECURSIVE FindMaterialFrom(_, _, _)
FindMaterialFrom(elements, point, k) ==
    IF k > Len(elements) THEN NoMaterial
    ELSE IF RegionContains(elements[k], point) THEN elements[k].material
    ELSE FindMaterialFrom(elements, point, k + 1)

\* the material of the first element containing the point, NoMaterial for null
findMaterialAtPoint(elements, point) == FindMaterialFrom(elements, point, 1)

(***************************************************************************)
(* generateMesh                                                            *)
(***************************************************************************)
RECURSIVE FlattenPoints(_, _)
FlattenPoints(elements, k) ==
    IF k > Len(elements) THEN <<>>
    ELSE elements[k].points \o FlattenPoints(elements, k + 1)

\* the running minX / minY / maxX / maxY of the two forEach loops
RECURSIVE FoldMinX(_, _, _)
FoldMinX(pts, k, acc) ==
    IF k > Len(pts) THEN acc ELSE FoldMinX(pts, k + 1, MathMin(acc, pts[k].x))
RECURSIVE FoldMinY(_, _, _)
FoldMinY(pts, k, acc) ==
    IF k > Len(pts) THEN acc ELSE FoldMinY(pts, k + 1, MathMin(acc, pts[k].y))
RECURSIVE FoldMaxX(_, _, _)
FoldMaxX(pts, k, acc) ==
    IF k > Len(pts) THEN acc ELSE FoldMaxX(pts, k + 1, MathMax(acc, pts[k].x))
RECURSIVE FoldMaxY(_, _, _)
FoldMaxY(pts, k, acc) ==
    IF k > Len(pts) THEN acc ELSE FoldMaxY(pts, k + 1, MathMax(acc, pts[k].y))

\* the bounding box of pts grown by margin on every side
ExpandedBox(pts, margin) ==
    [minX |-> Sub(FoldMinX(pts, 1, PosInf), margin),
     minY |-> Sub(FoldMinY(pts, 1, PosInf), margin),
     maxX |-> Add(FoldMaxX(pts, 1, NegInf), margin),
     maxY |-> Add(FoldMaxY(pts, 1, NegInf), margin)]

\* the expanded domain of a drawing
DomainOf(drawingElements, meshSize) ==
    ExpandedBox(FlattenPoints(drawingElements, 1), Mul(meshSize, Num(MarginFactor)))

\* GridCount without the closing node of the row; C5 must reject it
GridCountWithoutLast(extent, meshSize) == MathCeil(Div(extent, meshSize))

\* nx or ny: Math.ceil(extent / meshSize) + 1
GridCount(extent, meshSize) == Add(MathCeil(Div(extent, meshSize)), Num(1))

\* number of passes of "for (k = 0; k < count; k++)"
LoopCount(count) == IF IsFinite(count) /\ count[1] > 0 THEN count[1] ELSE 0

\* Math.abs(a - b) < 0.001
OnEdge(a, b) == Lt(MathAbs(Sub(a, b)), EdgeTolerance)

\* GridIsBoundary without the left and right edges; C3 must reject it
GridIsBoundaryTopBottomOnly(isLeftBoundary, isRightBoundary, isBottomBoundary, isTopBoundary) ==
    isBottomBoundary \/ isTopBoundary

\* the isBoundary flag of a grid node
GridIsBoundary(isLeftBoundary, isRightBoundary, isBottomBoundary, isTopBoundary) ==
    isLeftBoundary \/ isRightBoundary \/ isBottomBoundary \/ isTopBoundary

\* Classify with the right edge left free; C7 must reject it
ClassifyRightFree(isLeftBoundary, isRightBoundary, isBottomBoundary, isTopBoundary, interiorTemp, exteriorTemp) ==
    IF isLeftBoundary
      THEN [boundaryType |-> "exterior", fixed |-> TRUE, temperature |-> exteriorTemp]
    ELSE IF isRightBoundary
      THEN [boundaryType |-> "interior", fixed |-> FALSE, temperature |-> Zero]
    ELSE IF isTopBoundary \/ isBottomBoundary
      THEN [boundaryType |-> "adiabatic", fixed |-> FALSE, temperature |-> Zero]
    ELSE [boundaryType |-> "none", fixed |-> FALSE, temperature |-> Zero]

\* Classify with the left edge left free; C27 must reject it
ClassifyLeftFree(isLeftBoundary, isRightBoundary, isBottomBoundary, isTopBoundary, interiorTemp, exteriorTemp) ==
    IF isLeftBoundary
      THEN [boundaryType |-> "exterior", fixed |-> FALSE, temperature |-> Zero]
    ELSE IF isRightBoundary
      THEN [boundaryType |-> "interior", fixed |-> TRUE, temperature |-> interiorTemp]
    ELSE IF isTopBoundary \/ isBottomBoundary
      THEN [boundaryType |-> "adiabatic", fixed |-> FALSE, temperature |-> Zero]
    ELSE [boundaryType |-> "none", fixed |-> FALSE, temperature |-> Zero]

\* Classify testing the top and bottom edges first; C8 must reject it
ClassifyTopBottomFirst(isLeftBoundary, isRightBoundary, isBottomBoundary, isTopBoundary, interiorTemp, exteriorTemp) ==
    IF isTopBoundary \/ isBottomBoundary
      THEN [boundaryType |-> "adiabatic", fixed |-> FALSE, temperature |-> Zero]
    ELSE IF isLeftBoundary
      THEN [boundaryType |-> "exterior", fixed |-> TRUE, temperature |-> exteriorTemp]
    ELSE IF isRightBoundary
      THEN [boundaryType |-> "interior", fixed |-> TRUE, temperature |-> interiorTemp]
    ELSE [boundaryType |-> "none", fixed |-> FALSE, temperature |-> Zero]

\* boundaryType, fixed and temperature of a grid node (the if / else-if chain);
\* "none" is the boundaryType left undefined
Classify(isLeftBoundary, isRightBoundary, isBottomBoundary, isTopBoundary, interiorTemp, exteriorTemp) ==
    IF isLeftBoundary
      THEN [boundaryType |-> "exterior", fixed |-> TRUE, temperature |-> exteriorTemp]
    ELSE IF isRightBoundary
      THEN [boundaryType |-> "interior", fixed |-> TRUE, temperature |-> interiorTemp]
    ELSE IF isTopBoundary \/ isBottomBoundary
      THEN [boundaryType |-> "adiabatic", fixed |-> FALSE, temperature |-> Zero]
    ELSE [boundaryType |-> "none", fixed |-> FALSE, temperature |-> Zero]

\* the object pushed for a grid node
NodeRecord(nodeId, x, y, c, isBoundary) ==
    [id |-> nodeId, x |-> x, y |-> y, temperature |-> c.temperature,
     fixed |-> c.fixed, isBoundary |-> isBoundary, boundaryType |-> c.boundaryType]

GridNodeFlags(nodeId, x, y, isLeftBoundary, isRightBoundary, isBottomBoundary, isTopBoundary, interiorTemp, exteriorTemp) ==
    NodeRecord(nodeId, x, y,
               Classify(isLeftBoundary, isRightBoundary, isBottomBoundary,
                        isTopBoundary, interiorTemp, exteriorTemp),
               GridIsBoundary(isLeftBoundary, isRightBoundary,
                              isBottomBoundary, isTopBoundary))

GridNodeAt(dom, nodeId, x, y, interiorTemp, exteriorTemp) ==
    GridNodeFlags(nodeId, x, y, OnEdge(x, dom.minX), OnEdge(x, dom.maxX),
                  OnEdge(y, dom.minY), OnEdge(y, dom.maxY),
                  interiorTemp, exteriorTemp)

\* x = minX + i * (width / (nx - 1)), and y likewise
GridCoord(lo, hi, count, i) ==
    Add(lo, Mul(Num(i), Div(Sub(hi, lo), Sub(count, Num(1)))))

\* the grid node of column i, row j (both from 0), pushed with id nodeId
GridNode(dom, nx, ny, i, j, nodeId, interiorTemp, exteriorTemp) ==
    GridNodeAt(dom, nodeId, GridCoord(dom.minX, dom.maxX, nx, i),
               GridCoord(dom.minY, dom.maxY, ny, j), interiorTemp, exteriorTemp)

\* the nodes pushed by the two nested grid loops, row by row (cx columns, cy rows)
GridNodeSeq(dom, nx, ny, cx, cy, interiorTemp, exteriorTemp) ==
    [k \in 1..(cx * cy) |->
        GridNode(dom, nx, ny, (k - 1) % cx, (k - 1) \div cx, k - 1,
                 interiorTemp, exteriorTemp)]

GridNodes(dom, nx, ny, interiorTemp, exteriorTemp) ==
    GridNodeSeq(dom, nx, ny, LoopCount(nx), LoopCount(ny), interiorTemp, exteriorTemp)

\* nodes.some(node => distance(node, (x, y)) < r), r = refinementSize / 2
SomeNodeWithin(nodes, x, y, r) ==
    \E k \in 1..Len(nodes) :
        /\ MaybeWithin(nodes[k].x, x, r)
        /\ MaybeWithin(nodes[k].y, y, r)
        /\ DistLt(nodes[k].x, nodes[k].y, x, y, r)

TooClose(nodes, x, y, refinementSize) ==
    SomeNodeWithin(nodes, x, y, Div(refinementSize, Num(2)))

\* x >= minX && x <= maxX && y >= minY && y <= maxY
InDomain(dom, x, y) ==
    /\ Ge(x, dom.minX) /\ Le(x, dom.maxX)
    /\ Ge(y, dom.minY) /\ Le(y, dom.maxY)

\* RefinementNode flagged as a boundary node; C10 must reject it
RefinementNodeOnBoundary(nodeId, x, y) ==
    [id |-> nodeId, x |-> x, y |-> y, temperature |-> Zero,
     fixed |-> FALSE, isBoundary |-> TRUE, boundaryType |-> "none"]

\* the node pushed for an accepted refinement candidate: no boundaryType
RefinementNode(nodeId, x, y) ==
    [id |-> nodeId, x |-> x, y |-> y, temperature |-> Zero,
     fixed |-> FALSE, isBoundary |-> FALSE, boundaryType |-> "none"]

\* the candidate (x, y) is pushed when in the domain and not too close to a node
RefineAt(nodes, dom, x, y, refinementSize) ==
    IF InDomain(dom, x, y) /\ ~TooClose(nodes, x, y, refinementSize)
    THEN Append(nodes, RefinementNode(Len(nodes), x, y))
    ELSE nodes

\* junction coordinate - refinementRadius + i * refinementSize
RefineCoord(c, refinementRadius, refinementSize, i) ==
    Add(Sub(c, refinementRadius), Mul(Num(i), refinementSize))

\* the body of the inner refinement loop for candidate (i, j) of a junction
RefineCandidate(nodes, dom, junction, refinementRadius, refinementSize, i, j) ==
    RefineAt(nodes, dom,
             RefineCoord(junction.x, refinementRadius, refinementSize, i),
             RefineCoord(junction.y, refinementRadius, refinementSize, j),
             refinementSize)

RECURSIVE RefineCols(_, _, _, _, _, _, _, _)
RefineColsFrom(next, dom, junction, radius, size, refinementNx, i, j) ==
    IF Len(next) >= 0
    THEN RefineCols(next, dom, junction, radius, size, refinementNx, i, j)
    ELSE next

\* for (i = ...; i <= refinementNx; i++) of row j
RefineCols(nodes, dom, junction, radius, size, refinementNx, i, j) ==
    IF i > refinementNx THEN nodes
    ELSE RefineColsFrom(RefineCandidate(nodes, dom, junction, radius, size, i, j),
                        dom, junction, radius, size, refinementNx, i + 1, j)

RECURSIVE RefineRows(_, _, _, _, _, _, _, _)
RefineRowsFrom(next, dom, junction, radius, size, refinementNx, refinementNy, j) ==
    IF Len(next) >= 0
    THEN RefineRows(next, dom, junction, radius, size, refinementNx, refinementNy, j)
    ELSE next

\* for (j = ...; j <= refinementNy; j++)
RefineRows(nodes, dom, junction, radius, size, refinementNx, refinementNy, j) ==
    IF j > refinementNy THEN nodes
    ELSE RefineRowsFrom(RefineCols(nodes, dom, junction, radius, size,
                                   refinementNx, 0, j),
                        dom, junction, radius, size, refinementNx, refinementNy, j + 1)

\* refinementNx = refinementNy = Math.ceil(2 * refinementRadius / refinementSize),
\* as the last index of a loop "k <= refinementN" (-1: no pass)
RefinementCount(refinementRadius, refinementSize) ==
    LoopCount(Add(MathCeil(Div(Mul(Num(2), refinementRadius), refinementSize)),
                  Num(1))) - 1

\* the refinement of one junction
RefineJunction(nodes, dom, junction, refinementRadius, refinementSize, refinementN) ==
    RefineRows(nodes, dom, junction, refinementRadius, refinementSize,
               refinementN, refinementN, 0)

RECURSIVE RefineJunctions(_, _, _, _, _, _)
RefineJunctionsFrom(next, dom, junctions, radius, size, k) ==
    IF Len(next) >= 0 THEN RefineJunctions(next, dom, junctions, radius, size, k)
    ELSE next

\* junctions.forEach(...): the refinement nodes of each junction in turn
RefineJunctions(nodes, dom, junctions, radius, size, k) ==
    IF k > Len(junctions) THEN nodes
    ELSE RefineJunctionsFrom(
             RefineJunction(nodes, dom, junctions[k], radius, size,
                            RefinementCount(radius, size)),
             dom, junctions, radius, size, k + 1)

\* findMaterialAtPoint(...) || Air
OrAir(found) == IF found = NoMaterial THEN Air ELSE found

\* material of the cell whose corner nodes are bottomLeft and topRight
CellMaterial(drawingElements, bottomLeft, topRight) ==
    OrAir(findMaterialAtPoint(drawingElements,
              Pt(Div(Add(bottomLeft.x, topRight.x), Num(2)),
                 Div(Add(bottomLeft.y, topRight.y), Num(2)))))

\* CellTriangle shifted one grid row up; C4 must reject it
CellTriangleNextRow(nx, i, j, half) ==
    IF half = 0 THEN <<(j + 1) * nx + i, (j + 1) * nx + i + 1, (j + 2) * nx + i + 1>>
    ELSE <<(j + 1) * nx + i, (j + 2) * nx + i + 1, (j + 2) * nx + i>>

\* node indices of the first (half = 0) and second (half = 1) triangle of cell (i, j)
CellTriangle(nx, i, j, half) ==
    IF half = 0 THEN <<j * nx + i, j * nx + i + 1, (j + 1) * nx + i + 1>>
    ELSE <<j * nx + i, (j + 1) * nx + i + 1, (j + 1) * nx + i>>

\* the element pushed with id elementId for half "half" of cell (i, j)
CellElement(drawingElements, nodes, nx, i, j, half, elementId) ==
    [id |-> elementId,
     nodes |-> CellTriangle(nx, i, j, half),
     material |-> CellMaterial(drawingElements, nodes[j * nx + i + 1],
                               nodes[(j + 1) * nx + i + 2])]

\* the elements pushed by the triangulation loops: two per cell, row by row
TriangulateCells(drawingElements, nodes, nx, cx, cy) ==
    [e \in 1..(2 * cx * cy) |->
        CellElement(drawingElements, nodes, nx, ((e - 1) \div 2) % cx,
                    ((e - 1) \div 2) \div cx, (e - 1) % 2, e - 1)]

Triangulate(drawingElements, nodes, nx, ny) ==
    TriangulateCells(drawingElements, nodes, LoopCount(nx),
                     LoopCount(Sub(nx, Num(1))), LoopCount(Sub(ny, Num(1))))

MeshOf(drawingElements, nodes, nx, ny) ==
    [nodes |-> nodes, elements |-> Triangulate(drawingElements, nodes, nx, ny)]

MeshOver(drawingElements, dom, nx, ny, meshSize, adaptiveFactor, interiorTemp, exteriorTemp) ==
    MeshOf(drawingElements,
           RefineJunctions(GridNodes(dom, nx, ny, interiorTemp, exteriorTemp), dom,
                           findJunctions(drawingElements),
                           Mul(meshSize, Num(RefinementRadiusFactor)),
                           Mul(meshSize, adaptiveFactor), 1),
           nx, ny)

MeshIn(drawingElements, dom, meshSize, adaptiveFactor, interiorTemp, exteriorTemp) ==
    MeshOver(drawingElements, dom,
             GridCount(Sub(dom.maxX, dom.minX), meshSize),
             GridCount(Sub(dom.maxY, dom.minY), meshSize),
             meshSize, adaptiveFactor, interiorTemp, exteriorTemp)

generateMesh(drawingElements, meshSize, adaptiveFactor, interiorTemp, exteriorTemp) ==
    MeshIn(drawingElements, DomainOf(drawingElements, meshSize),
           meshSize, adaptiveFactor, interiorTemp, exteriorTemp)

(***************************************************************************)
(* solveHeatTransfer                                                       *)
(***************************************************************************)
INTERIOR_HEAT_TRANSFER_COEFFICIENT == Rat(77, 10)
EXTERIOR_HEAT_TRANSFER_COEFFICIENT == Num(25)
\* the reference temperatures written into the Robin branch
RobinInteriorTemp == Num(20)
RobinExteriorTemp == Num(0)

\* K is kept as row |-> (column |-> value); the key `${i}-${j}` is present
\* when j is in the domain of row i
EmptyRow == [c \in {} |-> Zero]
EmptyMatrix(n) == [i \in 0..(n - 1) |-> EmptyRow]

HasKey(K, i, j) == i \in DOMAIN K /\ j \in DOMAIN K[i]
\* K[`${i}-${j}`]
Entry(K, i, j) == IF HasKey(K, i, j) THEN K[i][j] ELSE Undefined

\* matrix[key] = value
SetEntry(K, i, j, value) ==
    [K EXCEPT ![i] = [c \in DOMAIN @ \cup {j} |-> IF c = j THEN value ELSE @[c]]]

\* matrix[key] || 0
OrZero(old) == IF Truthy(old) THEN old ELSE Zero

\* matrix[key] = (matrix[key] || 0) + value
addToSparseMatrix(K, i, j, value) ==
    SetEntry(K, i, j, Add(OrZero(Entry(K, i, j)), value))

\* delete matrix[key]
deleteFromSparseMatrix(K, i, j) ==
    IF HasKey(K, i, j)
    THEN [K EXCEPT ![i] = [c \in DOMAIN @ \ {j} |-> @[c]]]
    ELSE K

\* 0.5 * |(nj.x - ni.x)(nk.y - ni.y) - (nk.x - ni.x)(nj.y - ni.y)|
TriangleArea(ni, nj, nk) ==
    Mul(Rat(1, 2),
        MathAbs(Sub(Mul(Sub(nj.x, ni.x), Sub(nk.y, ni.y)),
                    Mul(Sub(nk.x, ni.x), Sub(nj.y, ni.y)))))

\* the shape-function gradients <<bi, bj, bk>> and <<ci, cj, ck>>
Gradients(ni, nj, nk) ==
    [b |-> <<Sub(nj.y, nk.y), Sub(nk.y, ni.y), Sub(ni.y, nj.y)>>,
     c |-> <<Sub(nk.x, nj.x), Sub(ni.x, nk.x), Sub(nj.x, ni.x)>>]

\* factor * (b_r * b_c + c_r * c_c)
ElementEntry(factor, g, r, c) ==
    Mul(factor, Add(Mul(g.b[r], g.b[c]), Mul(g.c[r], g.c[c])))

\* the nine addToSparseMatrix calls, p = 1..9 in the order (i,i), (i,j), (i,k),
\* (j,i), ..., (k,k); idx = <<i, j, k>>
EntryRow(p) == ((p - 1) \div 3) + 1
EntryCol(p) == ((p - 1) % 3) + 1

RECURSIVE AddEntries(_, _, _, _, _)
AddEntries(K, idx, g, factor, p) ==
    IF p > 9 THEN K
    ELSE AddEntries(addToSparseMatrix(K, idx[EntryRow(p)], idx[EntryCol(p)],
                        ElementEntry(factor, g, EntryRow(p), EntryCol(p))),
                    idx, g, factor, p + 1)

AssembleTriangle(K, idx, ni, nj, nk, conductivity) ==
    AddEntries(K, idx, Gradients(ni, nj, nk),
               Div(conductivity, Mul(Num(4), TriangleArea(ni, nj, nk))), 1)

\* the body of the assembly loop for one element
AssembleElement(K, nodes, element) ==
    AssembleTriangle(K, element.nodes, nodes[element.nodes[1] + 1],
                     nodes[element.nodes[2] + 1], nodes[element.nodes[3] + 1],
                     element.material.thermalConductivity)

\* "for (const element of elements)": elements lo..hi in order, starting from K
RECURSIVE AssembleRange(_, _, _, _, _)
AssembleFrom(left, nodes, elements, lo, hi) ==
    IF Cardinality(DOMAIN left) >= 0 THEN AssembleRange(left, nodes, elements, lo, hi)
    ELSE left

AssembleRange(K, nodes, elements, lo, hi) ==
    IF lo > hi THEN K
    ELSE IF lo = hi THEN AssembleElement(K, nodes, elements[lo])
    ELSE AssembleFrom(AssembleRange(K, nodes, elements, lo, (lo + hi) \div 2),
                      nodes, elements, (lo + hi) \div 2 + 1, hi)

Assemble(mesh) ==
    AssembleRange(EmptyMatrix(Len(mesh.nodes)), mesh.nodes, mesh.elements,
                  1, Len(mesh.elements))

\* the loop "for j < n: delete K[i-j]; delete K[j-i]"
ClearRowAndColumn(K, i) ==
    [r \in DOMAIN K |->
        IF r = i THEN EmptyRow
        ELSE IF i \in DOMAIN K[r] THEN [c \in DOMAIN K[r] \ {i} |-> K[r][c]]
        ELSE K[r]]

\* DirichletRow that keeps the assembled diagonal and adds 1 to it; C23 must
\* reject it
DirichletRowOnAssembledDiagonal(K, i) ==
    addToSparseMatrix(SetEntry(ClearRowAndColumn(K, i), i, i, Entry(K, i, i)), i, i, Num(1))

\* the Dirichlet branch for node i on K: row and column deleted, diagonal 1
DirichletRow(K, i) == addToSparseMatrix(ClearRowAndColumn(K, i), i, i, Num(1))

\* the boundary-condition branch taken for one node: "dirichlet", "robinInterior",
\* "robinExterior" or "none"
BoundaryBranch(node) ==
    IF node.fixed THEN "dirichlet"
    ELSE IF node.isBoundary /\ node.boundaryType = "interior" THEN "robinInterior"
    ELSE IF node.isBoundary /\ node.boundaryType = "exterior" THEN "robinExterior"
    ELSE "none"

\* K[i-i] += h and F[i] += h * reference
RobinNode(KF, i, h, reference) ==
    [K |-> addToSparseMatrix(KF.K, i, i, h),
     F |-> [KF.F EXCEPT ![i] = Add(@, Mul(h, reference))]]

ApplyBranch(KF, node, i, branch) ==
    IF branch = "dirichlet"
      THEN [K |-> DirichletRow(KF.K, i), F |-> [KF.F EXCEPT ![i] = node.temperature]]
    ELSE IF branch = "robinInterior"
      THEN RobinNode(KF, i, INTERIOR_HEAT_TRANSFER_COEFFICIENT, RobinInteriorTemp)
    ELSE IF branch = "robinExterior"
      THEN RobinNode(KF, i, EXTERIOR_HEAT_TRANSFER_COEFFICIENT, RobinExteriorTemp)
    ELSE KF

\* the body of the boundary-condition loop for node i, on the pair [K, F]
ApplyBoundaryNode(KF, nodes, i) ==
    ApplyBranch(KF, nodes[i + 1], i, BoundaryBranch(nodes[i + 1]))

RECURSIVE BoundaryRange(_, _, _, _)
BoundaryFrom(left, nodes, lo, hi) ==
    IF Cardinality(DOMAIN left.F) >= 0 THEN BoundaryRange(left, nodes, lo, hi)
    ELSE left

BoundaryRange(KF, nodes, lo, hi) ==
    IF lo > hi THEN KF
    ELSE IF lo = hi THEN ApplyBoundaryNode(KF, nodes, lo)
    ELSE BoundaryFrom(BoundaryRange(KF, nodes, lo, (lo + hi) \div 2),
                      nodes, (lo + hi) \div 2 + 1, hi)

ApplyBoundaryConditions(KF, nodes) == BoundaryRange(KF, nodes, 0, Len(nodes) - 1)

\* the least column of a non-empty set of columns
MinCol(cols) == CHOOSE c \in cols : \A d \in cols : c <= d

\* if (K[key]) sum -= K[key] * T[j]
SumStep(sum, kij, tj) == IF Truthy(kij) THEN Sub(sum, Mul(kij, tj)) ELSE sum

\* the inner loop over j # i in ascending j; the keys absent from row i are
\* undefined and contribute nothing
RECURSIVE RowSum(_, _, _, _)
RowSumAt(sum, row, T, cols, j) ==
    RowSum(SumStep(sum, row[j], T[j]), row, T, cols \ {j})

RowSum(sum, row, T, cols) ==
    IF cols = {} THEN sum ELSE RowSumAt(sum, row, T, cols, MinCol(cols))

\* newT = sum / K[`${i}-${i}`]
GaussSeidelValue(K, F, T, i) ==
    Div(RowSum(F[i], K[i], T, DOMAIN K[i] \ {i}), ToNumber(Entry(K, i, i)))

\* error = Math.max(error, Math.abs(newT - T[i])); T[i] = newT
UpdateNode(TE, i, newT) ==
    [T |-> [TE.T EXCEPT ![i] = newT],
     error |-> MathMax(TE.error, MathAbs(Sub(newT, TE.T[i])))]

\* the body of the sweep loop for node i, on the pair [T, error]
GaussSeidelNode(TE, K, F, nodes, i) ==
    IF nodes[i + 1].fixed THEN TE
    ELSE UpdateNode(TE, i, GaussSeidelValue(K, F, TE.T, i))

RECURSIVE SweepRange(_, _, _, _, _, _)
SweepFrom(left, K, F, nodes, lo, hi) ==
    IF Cardinality(DOMAIN left.T) >= 0 THEN SweepRange(left, K, F, nodes, lo, hi)
    ELSE left

SweepRange(TE, K, F, nodes, lo, hi) ==
    IF lo > hi THEN TE
    ELSE IF lo = hi THEN GaussSeidelNode(TE, K, F, nodes, lo)
    ELSE SweepFrom(SweepRange(TE, K, F, nodes, lo, (lo + hi) \div 2),
                   K, F, nodes, (lo + hi) \div 2 + 1, hi)

\* GaussSeidelSweep with every node computed from the values of the previous
\* sweep; C22 must reject it
GaussSeidelSweepFromPrevious(K, F, T, nodes) ==
    [T |-> [i \in DOMAIN T |->
               IF nodes[i + 1].fixed THEN T[i] ELSE GaussSeidelValue(K, F, T, i)],
     error |-> SweepRange([T |-> T, error |-> Zero], K, F, nodes, 0, Len(nodes) - 1).error]

\* one pass of the while body: error = 0, then every node in ascending index
GaussSeidelSweep(K, F, T, nodes) ==
    SweepRange([T |-> T, error |-> Zero], K, F, nodes, 0, Len(nodes) - 1)

\* LoopCondition stopping one sweep short of the cap; C21 must reject it
LoopConditionOneShort(iteration, maxIterations, error, tolerance) ==
    iteration < maxIterations - 1 /\ Gt(error, tolerance)

\* while (iteration < maxIterations && error > tolerance)
LoopCondition(iteration, maxIterations, error, tolerance) ==
    iteration < maxIterations /\ Gt(error, tolerance)

\* Math.min(...T) and Math.max(...T)
RECURSIVE SpreadMin(_, _, _)
SpreadMin(T, lo, hi) ==
    IF lo > hi THEN PosInf
    ELSE IF lo = hi THEN MathMin(PosInf, T[lo])
    ELSE MathMin(SpreadMin(T, lo, (lo + hi) \div 2),
                 SpreadMin(T, (lo + hi) \div 2 + 1, hi))

RECURSIVE SpreadMax(_, _, _)
SpreadMax(T, lo, hi) ==
    IF lo > hi THEN NegInf
    ELSE IF lo = hi THEN MathMax(NegInf, T[lo])
    ELSE MathMax(SpreadMax(T, lo, (lo + hi) \div 2),
                 SpreadMax(T, (lo + hi) \div 2 + 1, hi))

\* WriteTemperatures adding to the temperature a node already has; C19 must
\* reject it
WriteTemperaturesAdding(nodes, T) ==
    [k \in 1..Len(nodes) |->
        [nodes[k] EXCEPT !.temperature = Add(nodes[k].temperature, T[k - 1])]]

\* WriteTemperatures releasing the nodes it writes; C18 must reject it
WriteTemperaturesReleasing(nodes, T) ==
    [k \in 1..Len(nodes) |-> [nodes[k] EXCEPT !.temperature = T[k - 1], !.fixed = FALSE]]

\* nodes[i].temperature = T[i] for every node
WriteTemperatures(nodes, T) ==
    [k \in 1..Len(nodes) |-> [nodes[k] EXCEPT !.temperature = T[k - 1]]]

(***************************************************************************)
(* Diagnostics of solveHeatTransfer: isotherms, fRsi, flux                 *)
(***************************************************************************)
\* floor of the square root of n, 0 <= n, by bisection of lo..hi
RECURSIVE ISqrtIn(_, _, _)
ISqrtIn(n, lo, hi) ==
    IF hi - lo <= 1 THEN lo
    ELSE IF ((lo + hi) \div 2) * ((lo + hi) \div 2) <= n
      THEN ISqrtIn(n, (lo + hi) \div 2, hi)
    ELSE ISqrtIn(n, lo, (lo + hi) \div 2)

ISqrt(n) == ISqrtIn(n, 0, (IF n < 46340 THEN n ELSE 46340) + 1)

IsSquare(n) == ISqrt(n) * ISqrt(n) = n

\* Math.sqrt: exact when the root is rational; an irrational root of a is kept
\* as the record [root |-> a]
MathSqrt(a) ==
    IF IsNaN(a) THEN NaN
    ELSE IF ~IsFinite(a) THEN (IF a = PosInf THEN PosInf ELSE NaN)
    ELSE IF a[1] < 0 THEN NaN
    ELSE IF IsSquare(a[1]) /\ IsSquare(a[2]) THEN <<ISqrt(a[1]), ISqrt(a[2])>>
    ELSE [root |-> a]

\* The doubles of the one-dimensional estimate are kept as decimal fixed-point
\* numbers: RoundTo(a, k) is a rounded to the nearest multiple of 10^-k.
Pow10(k) == IF k = 0 THEN 1 ELSE IF k = 1 THEN 10 ELSE IF k = 2 THEN 100 ELSE IF k = 3 THEN 1000 ELSE IF k = 4 THEN 10000 ELSE IF k = 5 THEN 100000 ELSE 1000000

\* floor(r * 10^k / d) for 0 <= r < d, by long division
RECURSIVE ScaledQuotient(_, _, _, _)
ScaledQuotient(r, d, k, acc) ==
    IF k = 0 THEN acc
    ELSE ScaledQuotient((r * 10) % d, d, k - 1, acc * 10 + ((r * 10) \div d))

RoundAbs(n, d, k) ==
    Rat((n \div d) * Pow10(k) + ((ScaledQuotient(n % d, d, k + 1, 0) + 5) \div 10),
        Pow10(k))

RoundTo(a, k) ==
    IF ~IsFinite(a) THEN a
    ELSE IF a[1] < 0 THEN Neg(RoundAbs(-a[1], a[2], k))
    ELSE RoundAbs(a[1], a[2], k)

\* Array.from({ length: 9 }, (_, i) => minTemperature + (i + 1) * range / 10)
IsothermLevels(minTemperature, range) ==
    [k \in 1..9 |-> Add(minTemperature, Div(Mul(Num(k), range), Num(10)))]

Isotherms(minTemperature, maxTemperature) ==
    IsothermLevels(minTemperature, Sub(maxTemperature, minTemperature))

\* IsInteriorSurface reading the exterior face; C16 must reject it
IsExteriorSurface(node) == node.isBoundary /\ node.boundaryType = "exterior"

\* node.isBoundary && node.boundaryType === 'interior'
IsInteriorSurface(node) == node.isBoundary /\ node.boundaryType = "interior"

\* Math.min over the temperatures of the interior boundary nodes lo..hi
RECURSIVE MinSurfaceRange(_, _, _)
MinSurfaceRange(nodes, lo, hi) ==
    IF lo > hi THEN PosInf
    ELSE IF lo = hi
      THEN (IF IsInteriorSurface(nodes[lo]) THEN MathMin(PosInf, nodes[lo].temperature)
            ELSE PosInf)
    ELSE MathMin(MinSurfaceRange(nodes, lo, (lo + hi) \div 2),
                 MinSurfaceRange(nodes, (lo + hi) \div 2 + 1, hi))

\* minSurfaceTemp: starts at maxTemp, lowered by every interior boundary node
MinSurfaceTemp(nodes, maxTemp) ==
    MathMin(maxTemp, MinSurfaceRange(nodes, 1, Len(nodes)))

calculateFRsiValue(mesh, minTemp, maxTemp) ==
    Div(Sub(MinSurfaceTemp(mesh.nodes, maxTemp), minTemp), Sub(maxTemp, minTemp))

\* v_i * Ti + v_j * Tj + v_k * Tk for v = <<bi, bj, bk>> or <<ci, cj, ck>>
GradDot(v, ni, nj, nk) ==
    Add(Add(Mul(v[1], ni.temperature), Mul(v[2], nj.temperature)),
        Mul(v[3], nk.temperature))

\* qx or qy: -conductivity * (v . T) / (2 * area)
FluxComponent(conductivity, v, ni, nj, nk, area) ==
    Mul(Neg(conductivity), Div(GradDot(v, ni, nj, nk), Mul(Num(2), area)))

\* the pushed flux value: element centre and Math.sqrt(qx * qx + qy * qy)
FluxValue(ni, nj, nk, qx, qy) ==
    [x |-> Div(Add(Add(ni.x, nj.x), nk.x), Num(3)),
     y |-> Div(Add(Add(ni.y, nj.y), nk.y), Num(3)),
     magnitude |-> MathSqrt(Add(Mul(qx, qx), Mul(qy, qy)))]

TriangleFlux(ni, nj, nk, conductivity, g, area) ==
    FluxValue(ni, nj, nk,
              FluxComponent(conductivity, g.b, ni, nj, nk, area),
              FluxComponent(conductivity, g.c, ni, nj, nk, area))

NodesFlux(ni, nj, nk, conductivity) ==
    TriangleFlux(ni, nj, nk, conductivity, Gradients(ni, nj, nk),
                 TriangleArea(ni, nj, nk))

\* the body of elements.forEach in calculateHeatFlux
ElementFlux(nodes, element) ==
    NodesFlux(nodes[element.nodes[1] + 1], nodes[element.nodes[2] + 1],
              nodes[element.nodes[3] + 1], element.material.thermalConductivity)

calculateHeatFlux(mesh) ==
    [e \in 1..Len(mesh.elements) |-> ElementFlux(mesh.nodes, mesh.elements[e])]

(***************************************************************************)
(* calculatePsiValue: the two heat-flow estimates                          *)
(***************************************************************************)
\* conductivity * (dT / Math.sqrt(area)) * Math.sqrt(area): the two roots cancel
\* for a positive area; a zero area gives (dT / 0) * 0 = NaN
CharacteristicFlow(conductivity, dT, area) ==
    IF IsNaN(area) \/ IsNaN(dT) THEN NaN
    ELSE IF area = Zero THEN NaN
    ELSE Mul(conductivity, dT)

\* Math.abs(node.temperature - (ni.temperature + nj.temperature + nk.temperature) / 3)
MeanDifference(node, ni, nj, nk) ==
    MathAbs(Sub(node.temperature,
                Div(Add(Add(ni.temperature, nj.temperature), nk.temperature), Num(3))))

ConnectedFlow(node, ni, nj, nk, conductivity) ==
    CharacteristicFlow(conductivity, MeanDifference(node, ni, nj, nk),
                       TriangleArea(ni, nj, nk))

\* element.nodes.includes(node.id)
Includes(element, id) == \E p \in 1..3 : element.nodes[p] = id

\* what one element adds to localFlow of node
ElementFlow(nodes, node, element) ==
    IF Includes(element, node.id)
    THEN ConnectedFlow(node, nodes[element.nodes[1] + 1], nodes[element.nodes[2] + 1],
                       nodes[element.nodes[3] + 1], element.material.thermalConductivity)
    ELSE Zero

RECURSIVE LocalFlowRange(_, _, _, _)
LocalFlowRange(mesh, node, lo, hi) ==
    IF lo > hi THEN Zero
    ELSE IF lo = hi THEN ElementFlow(mesh.nodes, node, mesh.elements[lo])
    ELSE Add(LocalFlowRange(mesh, node, lo, (lo + hi) \div 2),
             LocalFlowRange(mesh, node, (lo + hi) \div 2 + 1, hi))

\* what one node adds to totalFlow
NodeFlow(mesh, node) ==
    IF IsInteriorSurface(node) THEN LocalFlowRange(mesh, node, 1, Len(mesh.elements))
    ELSE Zero

RECURSIVE TotalFlowRange(_, _, _)
TotalFlowRange(mesh, lo, hi) ==
    IF lo > hi THEN Zero
    ELSE IF lo = hi THEN NodeFlow(mesh, mesh.nodes[lo])
    ELSE Add(TotalFlowRange(mesh, lo, (lo + hi) \div 2),
             TotalFlowRange(mesh, (lo + hi) \div 2 + 1, hi))

estimateTotalHeatFlow(mesh) == TotalFlowRange(mesh, 1, Len(mesh.nodes))

\* const tolerance = 5 of estimateOneDimensionalHeatFlow
WallTolerance == Num(5)

\* horizontalWalls.find(wall => Math.abs(wall.y - node.y) < tolerance); 0: none
RECURSIVE FirstWallFrom(_, _, _)
FirstWallFrom(walls, y, w) ==
    IF w > Len(walls) THEN 0
    ELSE IF Lt(MathAbs(Sub(walls[w].y, y)), WallTolerance) THEN w
    ELSE FirstWallFrom(walls, y, w + 1)

PushToWall(walls, w, node) ==
    IF w = 0 THEN Append(walls, [y |-> node.y, nodes |-> <<node>>])
    ELSE [walls EXCEPT ![w].nodes = Append(@, node)]

GroupNode(walls, node) ==
    IF node.isBoundary THEN PushToWall(walls, FirstWallFrom(walls, node.y, 1), node)
    ELSE walls

\* mesh.nodes.forEach over the nodes lo..hi, in ascending order
RECURSIVE GroupRange(_, _, _, _)
GroupFrom(walls, nodes, lo, hi) ==
    IF Len(walls) >= 0 THEN GroupRange(walls, nodes, lo, hi) ELSE walls

GroupRange(walls, nodes, lo, hi) ==
    IF lo > hi THEN walls
    ELSE IF lo = hi THEN GroupNode(walls, nodes[lo])
    ELSE GroupFrom(GroupRange(walls, nodes, lo, (lo + hi) \div 2),
                   nodes, (lo + hi) \div 2 + 1, hi)

HorizontalWalls(mesh) == GroupRange(<<>>, mesh.nodes, 1, Len(mesh.nodes))

\* [...wall.nodes].sort((a, b) => a.x - b.x): a stable sort, by insertion
\* the place of a node of abscissa x in the sorted list: after the nodes that
\* do not compare greater, so that equal abscissas keep their order
InsertPos(sorted, x) == Cardinality({p \in 1..Len(sorted) : ~Gt(sorted[p].x, x)})

InsertAt(sorted, p, node) ==
    SubSeq(sorted, 1, p) \o <<node>> \o SubSeq(sorted, p + 1, Len(sorted))

InsertNode(sorted, node) == InsertAt(sorted, InsertPos(sorted, node.x), node)

RECURSIVE SortRange(_, _, _, _)
SortFrom(sorted, nodes, lo, hi) ==
    IF Len(sorted) >= 0 THEN SortRange(sorted, nodes, lo, hi) ELSE sorted

SortRange(sorted, nodes, lo, hi) ==
    IF lo > hi THEN sorted
    ELSE IF lo = hi THEN InsertNode(sorted, nodes[lo])
    ELSE SortFrom(SortRange(sorted, nodes, lo, (lo + hi) \div 2),
                  nodes, (lo + hi) \div 2 + 1, hi)

SortByX(nodes) == SortRange(<<>>, nodes, 1, Len(nodes))

IsExteriorType(node) == node.boundaryType = "exterior"
IsInteriorType(node) == node.boundaryType = "interior"

\* nodes.reduce((sum, node) => sum + node.x, 0) / nodes.length
RECURSIVE SumX(_, _, _)
SumX(nodes, lo, hi) ==
    IF lo > hi THEN Zero
    ELSE IF lo = hi THEN nodes[lo].x
    ELSE Add(SumX(nodes, lo, (lo + hi) \div 2), SumX(nodes, (lo + hi) \div 2 + 1, hi))

AverageX(nodes) == Div(SumX(nodes, 1, Len(nodes)), Num(Len(nodes)))

\* the centre of the element lies in the region, borders included
CentreInRegion(ni, nj, nk, minX, minY, maxX, maxY) ==
    /\ Ge(Div(Add(Add(ni.x, nj.x), nk.x), Num(3)), minX)
    /\ Le(Div(Add(Add(ni.x, nj.x), nk.x), Num(3)), maxX)
    /\ Ge(Div(Add(Add(ni.y, nj.y), nk.y), Num(3)), minY)
    /\ Le(Div(Add(Add(ni.y, nj.y), nk.y), Num(3)), maxY)

ElementInRegion(nodes, element, minX, minY, maxX, maxY) ==
    CentreInRegion(nodes[element.nodes[1] + 1], nodes[element.nodes[2] + 1],
                   nodes[element.nodes[3] + 1], minX, minY, maxX, maxY)

findElementsInRegion(mesh, minX, minY, maxX, maxY) ==
    SelectSeq(mesh.elements,
              LAMBDA element : ElementInRegion(mesh.nodes, element, minX, minY, maxX, maxY))

\* materials.filter((material, index, self) =>
\*     index === self.findIndex(m => m.name === material.name))
\* the element at position p is the first of its material name
FirstOfName(elements, p) ==
    \A q \in 1..(p - 1) : elements[q].material.name # elements[p].material.name

UniqueElements(elements) ==
    SelectSeq([p \in 1..Len(elements) |-> [at |-> p, material |-> elements[p].material]],
              LAMBDA e : FirstOfName(elements, e.at))

UniqueMaterials(elementsInWall) ==
    [u \in 1..Len(UniqueElements(elementsInWall)) |->
        UniqueElements(elementsInWall)[u].material]

\* materialElements.length
MaterialCount(elementsInWall, name) ==
    Cardinality({p \in 1..Len(elementsInWall) : elementsInWall[p].material.name = name})

\* wallThickness * (materialElements.length / elementsInWall.length) / conductivity
MaterialResistance(elementsInWall, material, wallThickness) ==
    Div(Mul(wallThickness,
            Div(Num(MaterialCount(elementsInWall, material.name)),
                Num(Len(elementsInWall)))),
        material.thermalConductivity)

RECURSIVE ResistanceFrom(_, _, _, _, _)
ResistanceFrom(materials, u, elementsInWall, wallThickness, equivalentR) ==
    IF u > Len(materials) THEN equivalentR
    ELSE ResistanceFrom(materials, u + 1, elementsInWall, wallThickness,
                        Add(equivalentR,
                            MaterialResistance(elementsInWall, materials[u], wallThickness)))

\* 1 / INTERIOR_HEAT_TRANSFER_COEFFICIENT + 1 / EXTERIOR_HEAT_TRANSFER_COEFFICIENT
SurfaceResistance ==
    Add(Div(Num(1), INTERIOR_HEAT_TRANSFER_COEFFICIENT),
        Div(Num(1), EXTERIOR_HEAT_TRANSFER_COEFFICIENT))

\* equivalentR, the sum over the materials kept to 3 decimals
EquivalentR(elementsInWall, wallThickness) ==
    Add(RoundTo(ResistanceFrom(UniqueMaterials(elementsInWall), 1, elementsInWall,
                               wallThickness, Zero), 3),
        SurfaceResistance)

\* uValue * wallLength * tempDiff, wallLength = sortedNodes.length * tolerance;
\* uValue is kept to 5 decimals and the product to 3
WallFlowOf(equivalentR, count, tempDiff) ==
    RoundTo(Mul(Mul(RoundTo(Div(Num(1), equivalentR), 5),
                    Mul(Num(count), WallTolerance)),
                tempDiff), 3)

WallFlowBetween(mesh, wall, count, avgExteriorX, avgInteriorX, tempDiff) ==
    WallFlowOf(EquivalentR(findElementsInRegion(mesh, MathMin(avgExteriorX, avgInteriorX),
                                                Sub(wall.y, WallTolerance),
                                                MathMax(avgExteriorX, avgInteriorX),
                                                Add(wall.y, WallTolerance)),
                           MathAbs(Sub(avgInteriorX, avgExteriorX))),
               count, tempDiff)

WallFlowSides(mesh, wall, count, exteriorNodes, interiorNodes, tempDiff) ==
    IF Len(exteriorNodes) > 0 /\ Len(interiorNodes) > 0
    THEN WallFlowBetween(mesh, wall, count, AverageX(exteriorNodes),
                         AverageX(interiorNodes), tempDiff)
    ELSE Zero

WallFlowSorted(mesh, wall, sortedNodes, tempDiff) ==
    WallFlowSides(mesh, wall, Len(sortedNodes), SelectSeq(sortedNodes, IsExteriorType),
                  SelectSeq(sortedNodes, IsInteriorType), tempDiff)

\* the body of horizontalWalls.forEach: what one wall adds to oneDFlow
WallFlow(mesh, wall, tempDiff) == WallFlowSorted(mesh, wall, SortByX(wall.nodes), tempDiff)

RECURSIVE OneDFlowFrom(_, _, _, _, _)
OneDFlowFrom(mesh, walls, w, tempDiff, oneDFlow) ==
    IF w > Len(walls) THEN oneDFlow
    ELSE OneDFlowFrom(mesh, walls, w + 1, tempDiff,
                      Add(oneDFlow, WallFlow(mesh, walls[w], tempDiff)))

estimateOneDimensionalHeatFlow(mesh, minTemp, maxTemp) ==
    OneDFlowFrom(mesh, HorizontalWalls(mesh), 1, Sub(maxTemp, minTemp), Zero)

calculatePsiValue(mesh, minTemp, maxTemp) ==
    Sub(estimateTotalHeatFlow(mesh), estimateOneDimensionalHeatFlow(mesh, minTemp, maxTemp))

(***************************************************************************)
(* Inputs                                                                  *)
(***************************************************************************)
\* rectangle without properties.material
BareRect(p1, p2) == [type |-> "rectangle", points |-> <<p1, p2>>, material |-> NoMaterial]

\* one rectangle
Single(w) == <<Rect(Pt(Num(0), Num(0)), Pt(Num(w), Num(1)), Beton)>>
\* one rectangle of conductivity 1: a plain slab
Slab(w) == <<Rect(Pt(Num(0), Num(0)), Pt(Num(w), Num(1)), UnitLambda)>>
\* two rectangles side by side that share the defining point (w, 1)
Adjacent(w) ==
    <<Rect(Pt(Num(0), Num(0)), Pt(Num(w), Num(1)), Beton),
      Rect(Pt(Num(w), Num(1)), Pt(Num(2 * w), Num(0)), Isolation)>>
\* two rectangles one above the other that share the defining point (0, 1/2)
Stacked(w) ==
    <<Rect(Pt(Num(0), Rat(1, 2)), Pt(Num(w), Num(0)), Beton),
      Rect(Pt(Num(0), Rat(1, 2)), Pt(Num(w), Num(1)), Isolation)>>
\* a rectangle inside a wider one listed after it
Overlap(w) ==
    <<Rect(Pt(Num(1), Num(0)), Pt(Num(w + 1), Num(1)), Isolation),
      Rect(Pt(Num(0), Num(0)), Pt(Num(w + 2), Num(1)), Beton)>>
\* a line and a rectangle without material, listed before the region they cover
Skipped(w) ==
    <<Line(Pt(Num(0), Num(0)), Pt(Num(w), Num(1))),
      BareRect(Pt(Num(0), Num(1)), Pt(Num(w), Num(2))),
      Rect(Pt(Num(0), Num(0)), Pt(Num(w), Num(2)), Isolation)>>

Drawings ==
    {<<>>} \cup UNION {{Single(w), Slab(w), Adjacent(w), Stacked(w), Overlap(w),
                         Skipped(w)} : w \in 1..MaxWidth}

\* the simulation form offers 1..10 mm in steps of 0.5, and 0.1..1 in steps of 0.1
MeshSizes == {Num(1), Num(2)}
AdaptiveFactors == {Num(1), Rat(4, 5)}
\* <<interiorTemp, exteriorTemp>>
TempPairs == {<<Num(20), Num(0)>>, <<Num(20), Num(5)>>}
Tolerances == {Rat(1, 1000000)}

(***************************************************************************)
(* State                                                                   *)
(***************************************************************************)
VARIABLES
    pc,               \* "idle", "meshed", "assembled", "solving", "done"; "found";
                      \* "exported", "imported"
    drawingElements,  \* arguments of generateMesh
    meshSize,
    adaptiveFactor,
    interiorTemp,
    exteriorTemp,
    mesh,             \* the Mesh object: [nodes, elements]
    maxIterations,    \* arguments of solveHeatTransfer
    tolerance,
    K,                \* locals of solveHeatTransfer
    F,
    T,
    iteration,
    error,
    result,           \* the returned record (its nodes are mesh.nodes)
    earlier,          \* the result an earlier call returned, as its caller holds it
    junctions,        \* the list returned by findJunctions called on its own
    exported,         \* the text returned by exportDrawing
    imported,         \* the list returned by importDrawing
    page,             \* the state of the ThermalBridgeCalculator component
    timers            \* the callbacks handed to setTimeout that have not run

vars == <<pc, drawingElements, meshSize, adaptiveFactor, interiorTemp, exteriorTemp,
          mesh, maxIterations, tolerance, K, F, T, iteration, error, result,
          earlier, junctions, exported, imported, page, timers>>

inputVars == <<drawingElements, meshSize, adaptiveFactor, interiorTemp, exteriorTemp>>
solverArgs == <<maxIterations, tolerance>>
\* what a simulation call does not touch
appVars == <<junctions, exported, imported, page, timers>>

\* no call has returned yet
NoResult ==
    [returned |-> FALSE, minTemperature |-> NaN, maxTemperature |-> NaN,
     isotherms |-> <<>>, psiValue |-> NaN, fRsiValue |-> NaN, fluxValues |-> <<>>]

\* no earlier call
NoEarlier ==
    [returned |-> FALSE, result |-> NoResult, nodes |-> <<>>, temperatures |-> <<>>,
     maxIterations |-> 0, tolerance |-> Zero, shared |-> FALSE]

\* The result of the call that has just returned, kept by its caller: nodes is
\* the node array the result refers to (line 400: the array of the mesh, not a
\* copy), temperatures are the values read from it at the return, and shared
\* tells whether the next call is given the same Mesh object.
Kept(shared) ==
    [returned |-> TRUE, result |-> result, nodes |-> mesh.nodes,
     temperatures |-> [k \in 1..Len(mesh.nodes) |-> mesh.nodes[k].temperature],
     maxIterations |-> maxIterations, tolerance |-> tolerance, shared |-> shared]

\* ResultFor with a flux list that outlives the call and is appended to; C14
\* must reject it
ResultForAppendingFlux(solved, minTemperature, maxTemperature) ==
    [returned |-> TRUE,
     minTemperature |-> minTemperature,
     maxTemperature |-> maxTemperature,
     isotherms |-> Isotherms(minTemperature, maxTemperature),
     psiValue |-> calculatePsiValue(solved, minTemperature, maxTemperature),
     fRsiValue |-> calculateFRsiValue(solved, minTemperature, maxTemperature),
     fluxValues |-> earlier.result.fluxValues \o calculateHeatFlux(solved)]

\* the object returned by solveHeatTransfer; its nodes and elements are the
\* arrays of the mesh itself and are read there
ResultFor(solved, minTemperature, maxTemperature) ==
    [returned |-> TRUE,
     minTemperature |-> minTemperature,
     maxTemperature |-> maxTemperature,
     isotherms |-> Isotherms(minTemperature, maxTemperature),
     psiValue |-> calculatePsiValue(solved, minTemperature, maxTemperature),
     fRsiValue |-> calculateFRsiValue(solved, minTemperature, maxTemperature),
     fluxValues |-> calculateHeatFlux(solved)]

\* the text of a file that has not been written
NoText == [kind |-> "none"]

\* the component as first rendered (lines 103-107)
FirstRender ==
    [drawingElements |-> <<>>, simulationResult |-> [present |-> FALSE],
     isSimulating |-> FALSE, showSimulation |-> FALSE,
     newBridge |-> [psiValue |-> Zero, fRsi |-> Rat(3, 4)]]

\* nothing outside the simulation call has happened
AppIdle ==
    /\ junctions = <<>>
    /\ exported = NoText
    /\ imported = <<>>
    /\ page = FirstRender
    /\ timers = <<>>

\* the arguments of generateMesh are drawn here; nothing has run yet
Init ==
    /\ pc = "idle"
    /\ drawingElements \in Drawings
    /\ meshSize \in MeshSizes
    /\ adaptiveFactor \in AdaptiveFactors
    /\ \E tp \in TempPairs : interiorTemp = tp[1] /\ exteriorTemp = tp[2]
    /\ mesh = [nodes |-> <<>>, elements |-> <<>>]
    /\ maxIterations = 1000
    /\ tolerance = Rat(1, 1000000)
    /\ K = EmptyMatrix(0)
    /\ F = EmptyRow
    /\ T = EmptyRow
    /\ iteration = 0
    /\ error = Zero
    /\ result = NoResult
    /\ earlier = NoEarlier
    /\ AppIdle

\* mesh = generateMesh(drawingElements, meshSize, adaptiveFactor, tempInt, tempExt)
GenerateMesh ==
    /\ pc = "idle"
    /\ mesh' = generateMesh(drawingElements, meshSize, adaptiveFactor,
                            interiorTemp, exteriorTemp)
    /\ pc' = "meshed"
    /\ UNCHANGED <<inputVars, appVars, solverArgs, K, F, T, iteration, error, result, earlier>>

\* solveHeatTransfer(mesh, maxIterations, tolerance): assembly of K and F
SolveAssemble ==
    /\ pc = "meshed"
    /\ \E mi \in 1..MaxIterationsBound, tol \in Tolerances :
          /\ maxIterations' = mi
          /\ tolerance' = tol
    /\ K' = Assemble(mesh)
    /\ F' = [i \in 0..(Len(mesh.nodes) - 1) |-> Zero]
    /\ pc' = "assembled"
    /\ UNCHANGED <<inputVars, appVars, mesh, T, iteration, error, result, earlier>>

\* solveHeatTransfer: boundary conditions, then the Gauss-Seidel initialisation
SolveBoundaryConditions ==
    /\ pc = "assembled"
    /\ \E KF \in {ApplyBoundaryConditions([K |-> K, F |-> F], mesh.nodes)} :
          /\ K' = KF.K
          /\ F' = KF.F
    /\ iteration' = 0
    /\ error' = Add(tolerance, Num(1))
    /\ T' = [i \in 0..(Len(mesh.nodes) - 1) |-> mesh.nodes[i + 1].temperature]
    /\ pc' = "solving"
    /\ UNCHANGED <<inputVars, appVars, mesh, solverArgs, result, earlier>>

\* solveHeatTransfer: one pass of the while loop
SolveSweep ==
    /\ pc = "solving"
    /\ LoopCondition(iteration, maxIterations, error, tolerance)
    /\ \E TE \in {GaussSeidelSweep(K, F, T, mesh.nodes)} :
          /\ T' = TE.T
          /\ error' = TE.error
    /\ iteration' = iteration + 1
    /\ UNCHANGED <<pc, inputVars, appVars, mesh, solverArgs, K, F, result, earlier>>

\* solveHeatTransfer: the loop has ended; temperatures are written to the nodes
\* and the result is returned.  The write goes to the node objects of the mesh,
\* so an earlier result that refers to the same array sees it.
SolveFinish ==
    /\ pc = "solving"
    /\ ~LoopCondition(iteration, maxIterations, error, tolerance)
    /\ mesh' = [mesh EXCEPT !.nodes = WriteTemperatures(mesh.nodes, T)]
    /\ result' = ResultFor(mesh', SpreadMin(T, 0, Len(mesh.nodes) - 1),
                            SpreadMax(T, 0, Len(mesh.nodes) - 1))
    /\ earlier' = IF earlier.shared THEN [earlier EXCEPT !.nodes = mesh'.nodes]
                   ELSE earlier
    /\ pc' = "done"
    /\ UNCHANGED <<inputVars, appVars, solverArgs, K, F, T, iteration, error>>

Next ==
    \/ GenerateMesh
    \/ SolveAssemble
    \/ SolveBoundaryConditions
    \/ SolveSweep
    \/ SolveFinish

Spec == Init /\ [][Next]_vars

(***************************************************************************)
(* A second call: the simulation is run again from the same inputs, or the *)
(* solver is called again on the Mesh object it has already solved         *)
(***************************************************************************)
\* the locals of a call that has not started
FreshCall ==
    /\ K' = EmptyMatrix(0)
    /\ F' = EmptyRow
    /\ T' = EmptyRow
    /\ iteration' = 0
    /\ error' = Zero
    /\ result' = NoResult

\* the caller keeps the result and runs generateMesh again on the same inputs
RunAgain ==
    /\ pc = "done"
    /\ ~earlier.returned
    /\ earlier' = Kept(FALSE)
    /\ mesh' = [nodes |-> <<>>, elements |-> <<>>]
    /\ FreshCall
    /\ pc' = "idle"
    /\ UNCHANGED <<inputVars, appVars, solverArgs>>

\* the caller keeps the result and calls solveHeatTransfer on the same mesh
SolveAgain ==
    /\ pc = "done"
    /\ ~earlier.returned
    /\ earlier' = Kept(TRUE)
    /\ FreshCall
    /\ pc' = "meshed"
    /\ UNCHANGED <<inputVars, appVars, solverArgs, mesh>>

\* the second calls are explored on the coarser grid, exterior at 0
InitCalls == Init /\ meshSize = Num(2) /\ exteriorTemp = Zero

NextCalls ==
    \/ GenerateMesh
    \/ SolveAssemble
    \/ SolveBoundaryConditions
    \/ SolveSweep
    \/ SolveFinish
    \/ RunAgain
    \/ SolveAgain

SpecCalls == InitCalls /\ [][NextCalls]_vars

(***************************************************************************)
(* One call that runs to its end: solveHeatTransfer is synchronous, so     *)
(* every step that is enabled is taken                                     *)
(***************************************************************************)
\* explored on the coarser grid
InitCoarse == Init /\ meshSize = Num(2)

\* the position of the call: where it stands and how many sweeps it has run
position == <<pc, iteration>>

\* The call moves on: every step of Next changes the position, and a step of
\* Next is possible exactly when the call has not returned.
Advance ==
    /\ pc # "done"
    /\ \E p \in {"meshed", "assembled", "solving", "done"}, n \in 0..(MaxIterationsBound + 1) :
          /\ <<p, n>> # position
          /\ pc' = p
          /\ iteration' = n

SpecFair == InitCoarse /\ [][Next]_vars /\ WF_position(Advance)

(***************************************************************************)
(* solveHeatTransfer called on a mesh built by its caller: the function is *)
(* exported and takes any Mesh, so the nodes may be fixed or free on any   *)
(* boundary and may carry any starting temperature                         *)
(***************************************************************************)
FixedAt(boundaryType, temperature) ==
    [boundaryType |-> boundaryType, fixed |-> TRUE, temperature |-> temperature]

FreeAt(boundaryType, temperature) ==
    [boundaryType |-> boundaryType, fixed |-> FALSE, temperature |-> temperature]

ExteriorKinds == {FixedAt("exterior", Zero), FixedAt("exterior", Num(5)), FreeAt("exterior", Zero)}
InnerKinds == {FreeAt("none", Zero), FreeAt("none", Num(10)), FreeAt("adiabatic", Zero)}
InteriorKinds == {FixedAt("interior", Num(20)), FreeAt("interior", Zero)}

\* the unit square cut along the diagonal from node 0 to node 2
UnitSquareMesh(c0, c1, c2, c3, material) ==
    [nodes |-> <<NodeRecord(0, Zero, Zero, c0, c0.boundaryType # "none"),
                 NodeRecord(1, Num(1), Zero, c1, c1.boundaryType # "none"),
                 NodeRecord(2, Num(1), Num(1), c2, c2.boundaryType # "none"),
                 NodeRecord(3, Zero, Num(1), c3, c3.boundaryType # "none")>>,
     elements |-> <<[id |-> 0, nodes |-> <<0, 1, 2>>, material |-> material],
                    [id |-> 1, nodes |-> <<0, 2, 3>>, material |-> material]>>]

\* conductivities set by the user so that the diagonal of a node with a
\* surface coefficient is 25 + 25 or 7.7 + 7.7
Lambda25 == [name |-> "Lambda25", thermalConductivity |-> Num(25)]
Lambda77 == [name |-> "Lambda7.7", thermalConductivity |-> Rat(77, 10)]

\* the materials tried with the kinds of node 0 and node 2; at most one of the
\* two nodes is free
MaterialsFor(c0, c2) ==
    IF c0.fixed /\ c2.fixed THEN {UnitLambda, Beton}
    ELSE IF c2.fixed THEN {Lambda25}
    ELSE IF c0.fixed THEN {Lambda77}
    ELSE {}

CallerMeshes ==
    UNION {{UnitSquareMesh(c0, c1, c2, c3, material) : material \in MaterialsFor(c0, c2)} :
              c0 \in ExteriorKinds, c1 \in InnerKinds, c2 \in InteriorKinds,
              c3 \in InnerKinds}

\* the mesh is the caller's, generateMesh is not involved; interiorTemp and
\* exteriorTemp are the design temperatures the caller holds
InitSolver ==
    /\ pc = "meshed"
    /\ drawingElements = <<>>
    /\ meshSize = Num(1)
    /\ adaptiveFactor = Num(1)
    /\ \E tp \in TempPairs : interiorTemp = tp[1] /\ exteriorTemp = tp[2]
    /\ mesh \in CallerMeshes
    /\ maxIterations = 1000
    /\ tolerance = Rat(1, 1000000)
    /\ K = EmptyMatrix(0)
    /\ F = EmptyRow
    /\ T = EmptyRow
    /\ iteration = 0
    /\ error = Zero
    /\ result = NoResult
    /\ earlier = NoEarlier
    /\ AppIdle

NextSolver ==
    \/ SolveAssemble
    \/ SolveBoundaryConditions
    \/ SolveSweep
    \/ SolveFinish

SpecSolver == InitSolver /\ [][NextSolver]_vars

(***************************************************************************)
(* findJunctions called on its own, on regions whose defining points lie   *)
(* 0.4 mm apart                                                            *)
(***************************************************************************)
MaxRegions == 3

\* no simulation call has started
SolverIdle ==
    /\ mesh = [nodes |-> <<>>, elements |-> <<>>]
    /\ maxIterations = 1000
    /\ tolerance = Rat(1, 1000000)
    /\ K = EmptyMatrix(0)
    /\ F = EmptyRow
    /\ T = EmptyRow
    /\ iteration = 0
    /\ error = Zero
    /\ result = NoResult
    /\ earlier = NoEarlier

CornerPoints ==
    {Pt(Zero, Zero), Pt(Rat(2, 5), Zero), Pt(Rat(4, 5), Zero), Pt(Rat(2, 5), Rat(2, 5))}

CloseRegions ==
    {Rect(pp[1], pp[2], Beton) : pp \in {qq \in CornerPoints \X CornerPoints : qq[1] # qq[2]}}

JunctionDrawings == UNION {[1..n -> CloseRegions] : n \in 1..MaxRegions}

InitJunctions ==
    /\ pc = "idle"
    /\ drawingElements \in JunctionDrawings
    /\ meshSize = Num(1)
    /\ adaptiveFactor = Num(1)
    /\ interiorTemp = Num(20)
    /\ exteriorTemp = Zero
    /\ SolverIdle
    /\ AppIdle

\* junctions = findJunctions(drawingElements)
FindJunctions ==
    /\ pc = "idle"
    /\ junctions' = findJunctions(drawingElements)
    /\ pc' = "found"
    /\ UNCHANGED <<inputVars, solverArgs, mesh, K, F, T, iteration, error, result, earlier,
                   exported, imported, page, timers>>

NextJunctions == FindJunctions

SpecJunctions == InitJunctions /\ [][NextJunctions]_vars

(***************************************************************************)
(* exportDrawing and importDrawing.  A text is kept as what JSON.parse     *)
(* makes of it: kind is "json" when it parses, shape tells what its        *)
(* elements member is ("array", "absent", "other")                         *)
(***************************************************************************)
MaxFileElements == 2

\* { x: Math.round(p.x * 1000) / 1000, y: Math.round(p.y * 1000) / 1000 }
ExportPoint(p) ==
    Pt(Div(MathRound(Mul(p.x, Num(1000))), Num(1000)),
       Div(MathRound(Mul(p.y, Num(1000))), Num(1000)))

\* { ...element, points: element.points.map(...) }
ExportElement(element) ==
    [element EXCEPT !.points = [k \in 1..Len(element.points) |-> ExportPoint(element.points[k])]]

\* JSON.stringify of a number-valued member: a finite number is written as the
\* shortest decimal that reads back as itself, NaN and the infinities are
\* written as null, and a member that is undefined is left out
JsonNumber(a) == IF IsFinite(a) \/ IsUndefined(a) THEN a ELSE Null

JsonMaterial(material) ==
    IF material = NoMaterial THEN NoMaterial
    ELSE [material EXCEPT !.thermalConductivity = JsonNumber(@)]

JsonElement(element) ==
    [element EXCEPT
        !.points = [k \in 1..Len(element.points) |->
                       Pt(JsonNumber(element.points[k].x), JsonNumber(element.points[k].y))],
        !.material = JsonMaterial(@)]

\* JSON.stringify(drawingData, null, 2)
JSONStringify(drawingData) ==
    [kind |-> "json", shape |-> "array", version |-> drawingData.version,
     elements |-> [k \in 1..Len(drawingData.elements) |-> JsonElement(drawingData.elements[k])]]

exportDrawing(elements) ==
    JSONStringify([version |-> "1.0",
                   elements |-> [k \in 1..Len(elements) |-> ExportElement(elements[k])]])

\* the try block: JSON.parse throws on a text that is not JSON, and the test of
\* parsed.elements throws on the others; the catch block returns []
importDrawing(data) ==
    IF data.kind # "json" THEN <<>>
    ELSE IF data.shape # "array" THEN <<>>
    ELSE data.elements

\* texts that exportDrawing did not write
ForeignTexts ==
    {[kind |-> "text", shape |-> "absent", version |-> "", elements |-> <<>>],
     [kind |-> "json", shape |-> "absent", version |-> "1.0", elements |-> <<>>],
     [kind |-> "json", shape |-> "other", version |-> "1.0", elements |-> <<>>]}

\* the conductivity field of the editor emptied: parseFloat("") is NaN
BetonNaN == [name |-> "Beton", thermalConductivity |-> NaN]

FileCoordinates == {Num(1), Rat(12345, 10000), Rat(-5, 2000)}

FileElements ==
    {Rect(Pt(c1, Zero), Pt(Num(2), c2), material) :
        c1 \in FileCoordinates, c2 \in FileCoordinates,
        material \in {Beton, NoMaterial, BetonNaN}}

FileDrawings == UNION {[1..n -> FileElements] : n \in 0..MaxFileElements}

InitFile ==
    /\ pc = "idle"
    /\ \/ drawingElements \in FileDrawings /\ exported = NoText
       \/ drawingElements = <<>> /\ exported \in ForeignTexts
    /\ meshSize = Num(1)
    /\ adaptiveFactor = Num(1)
    /\ interiorTemp = Num(20)
    /\ exteriorTemp = Zero
    /\ SolverIdle
    /\ junctions = <<>>
    /\ imported = <<>>
    /\ page = FirstRender
    /\ timers = <<>>

\* exported = exportDrawing(drawingElements)
ExportDrawing ==
    /\ pc = "idle"
    /\ exported = NoText
    /\ exported' = exportDrawing(drawingElements)
    /\ pc' = "exported"
    /\ UNCHANGED <<inputVars, solverArgs, mesh, K, F, T, iteration, error, result, earlier,
                   junctions, imported, page, timers>>

\* imported = importDrawing(exported)
ImportDrawing ==
    /\ pc \in {"idle", "exported"}
    /\ exported # NoText
    /\ imported' = importDrawing(exported)
    /\ pc' = "imported"
    /\ UNCHANGED <<inputVars, solverArgs, mesh, K, F, T, iteration, error, result, earlier,
                   junctions, exported, page, timers>>

NextFile ==
    \/ ExportDrawing
    \/ ImportDrawing

SpecFile == InitFile /\ [][NextFile]_vars

(***************************************************************************)
(* The simulation with the two design temperatures apart or equal         *)
(***************************************************************************)
DesignTempPairs == {<<Num(20), Zero>>, <<Num(20), Num(20)>>, <<Zero, Zero>>}

InitTemps ==
    /\ pc = "idle"
    /\ drawingElements \in Drawings
    /\ meshSize = Num(2)
    /\ adaptiveFactor \in AdaptiveFactors
    /\ \E tp \in DesignTempPairs : interiorTemp = tp[1] /\ exteriorTemp = tp[2]
    /\ SolverIdle
    /\ AppIdle

SpecTemps == InitTemps /\ [][Next]_vars

(***************************************************************************)
(* The ThermalBridgeCalculator component: the drawing changes, the         *)
(* simulate button is clicked, and the callback given to setTimeout runs   *)
(* the simulation.  A callback runs to its end before any other event is   *)
(* handled; pc = "idle" is the page between two events.  timers holds, for *)
(* each callback not yet finished, the drawingElements of the render in    *)
(* which runSimulation was called.                                         *)
(***************************************************************************)
\* an element that has no points: generateMesh throws a TypeError on it
Malformed == <<[type |-> "rectangle", material |-> Beton]>>

PageDrawings == {<<>>, Single(1), Slab(1), Malformed}

\* the callbacks pending at one time are explored up to this number
MaxPending == 2

\* element.points.forEach(...) fails for an element without points
GenerateMeshThrows(elements) == \E k \in 1..Len(elements) : "points" \notin DOMAIN elements[k]

\* SimulateDisabled without the test of isSimulating; C30 must reject it
SimulateDisabledOnEmptyOnly(isSimulating, elements) == Len(elements) = 0

\* disabled={isSimulating || drawingElements.length === 0}
SimulateDisabled(isSimulating, elements) == isSimulating \/ Len(elements) = 0

InitPage ==
    /\ pc = "idle"
    /\ drawingElements = <<>>
    /\ meshSize = Num(2)
    /\ adaptiveFactor = Num(1)
    /\ interiorTemp = Num(20)
    /\ exteriorTemp = Zero
    /\ SolverIdle
    /\ AppIdle

\* handleDrawingChange(elements), called by the canvas, which is rendered
\* while the simulation view is not shown
HandleDrawingChange ==
    /\ pc = "idle"
    /\ ~page.showSimulation
    /\ \E elements \in PageDrawings :
          page' = [page EXCEPT !.drawingElements = elements,
                               !.simulationResult = [present |-> FALSE]]
    /\ UNCHANGED <<pc, inputVars, solverArgs, mesh, K, F, T, iteration, error, result,
                   earlier, junctions, exported, imported, timers>>

\* a click on the simulate button: runSimulation up to the call of setTimeout
RunSimulation ==
    /\ pc = "idle"
    /\ ~SimulateDisabled(page.isSimulating, page.drawingElements)
    /\ Len(timers) < MaxPending
    /\ page' = [page EXCEPT !.isSimulating = TRUE]
    /\ timers' = Append(timers, [drawingElements |-> page.drawingElements])
    /\ UNCHANGED <<pc, inputVars, solverArgs, mesh, K, F, T, iteration, error, result,
                   earlier, junctions, exported, imported>>

\* the callback starts and generateMesh returns
TimeoutCallback ==
    /\ pc = "idle"
    /\ timers # <<>>
    /\ ~GenerateMeshThrows(Head(timers).drawingElements)
    /\ drawingElements' = Head(timers).drawingElements
    /\ mesh' = generateMesh(Head(timers).drawingElements, meshSize, adaptiveFactor,
                            interiorTemp, exteriorTemp)
    /\ pc' = "meshed"
    /\ UNCHANGED <<meshSize, adaptiveFactor, interiorTemp, exteriorTemp, solverArgs,
                   K, F, T, iteration, error, result, earlier, appVars>>

\* the callback starts and generateMesh throws: the catch block, then finally
TimeoutThrows ==
    /\ pc = "idle"
    /\ timers # <<>>
    /\ GenerateMeshThrows(Head(timers).drawingElements)
    /\ drawingElements' = Head(timers).drawingElements
    /\ page' = [page EXCEPT !.isSimulating = FALSE]
    /\ timers' = Tail(timers)
    /\ UNCHANGED <<pc, meshSize, adaptiveFactor, interiorTemp, exteriorTemp, solverArgs,
                   mesh, K, F, T, iteration, error, result, earlier,
                   junctions, exported, imported>>

\* solveHeatTransfer has returned: the rest of the try block, then finally
CallbackReturn ==
    /\ pc = "done"
    /\ timers # <<>>
    /\ page' = [page EXCEPT
                   !.simulationResult = [present |-> TRUE, result |-> result,
                                         from |-> drawingElements],
                   !.newBridge = [psiValue |-> result.psiValue, fRsi |-> result.fRsiValue],
                   !.showSimulation = TRUE,
                   !.isSimulating = FALSE]
    /\ timers' = Tail(timers)
    /\ mesh' = [nodes |-> <<>>, elements |-> <<>>]
    /\ FreshCall
    /\ pc' = "idle"
    /\ UNCHANGED <<inputVars, solverArgs, earlier, junctions, exported, imported>>

\* onClose of the simulation view
CloseSimulation ==
    /\ pc = "idle"
    /\ page.showSimulation
    /\ page' = [page EXCEPT !.showSimulation = FALSE]
    /\ UNCHANGED <<pc, inputVars, solverArgs, mesh, K, F, T, iteration, error, result,
                   earlier, junctions, exported, imported, timers>>

\* the button under the results, rendered when simulationResult is not null
ShowSimulation ==
    /\ pc = "idle"
    /\ page.simulationResult.present
    /\ ~page.showSimulation
    /\ page' = [page EXCEPT !.showSimulation = TRUE]
    /\ UNCHANGED <<pc, inputVars, solverArgs, mesh, K, F, T, iteration, error, result,
                   earlier, junctions, exported, imported, timers>>

NextPage ==
    \/ HandleDrawingChange
    \/ RunSimulation
    \/ TimeoutCallback
    \/ TimeoutThrows
    \/ SolveAssemble
    \/ SolveBoundaryConditions
    \/ SolveSweep
    \/ SolveFinish
    \/ CallbackReturn
    \/ CloseSimulation
    \/ ShowSimulation

SpecPage == InitPage /\ [][NextPage]_vars

\* where the pending callback stands
callbackPosition == <<pc, iteration, Len(timers)>>

\* The pending callback moves on: the timer fires, the synchronous call takes
\* its next step, or the callback ends.  Such a step is possible exactly when
\* a callback is pending, and the events of the user are not among them.
CallbackAdvance ==
    /\ timers # <<>>
    /\ timers' \in {timers, Tail(timers)}
    /\ \E p \in {"idle", "meshed", "assembled", "solving", "done"}, n \in 0..(MaxIterationsBound + 1) :
          /\ pc' = p
          /\ iteration' = n

SpecPageFair == InitPage /\ [][NextPage]_vars /\ WF_callbackPosition(CallbackAdvance)

(***************************************************************************)
(* Observations on a state, stated from the inputs                         *)
(***************************************************************************)
\* generateMesh has returned
MeshReturned == pc # "idle"

\* the expanded domain dom with nx = ceil(domainWidth / meshSize) + 1 columns
\* and ny = ceil(domainHeight / meshSize) + 1 rows
GridOver(dom, nx, ny) ==
    [minX |-> dom.minX, minY |-> dom.minY, maxX |-> dom.maxX, maxY |-> dom.maxY,
     nx |-> nx, ny |-> ny, size |-> nx * ny]

GridOf(dom) ==
    GridOver(dom,
             Add(MathCeil(Div(Sub(dom.maxX, dom.minX), meshSize)), Num(1))[1],
             Add(MathCeil(Div(Sub(dom.maxY, dom.minY), meshSize)), Num(1))[1])

\* the grid expected for the current inputs; an empty drawing has no grid
MeshGrid ==
    IF drawingElements = <<>>
    THEN GridOver([minX |-> PosInf, minY |-> PosInf, maxX |-> NegInf, maxY |-> NegInf],
                  0, 0)
    ELSE GridOf(DomainOf(drawingElements, meshSize))

\* column and row of the grid node stored at position k (from 1) of the node list
ColumnOf(g, k) == (k - 1) % g.nx
RowOf(g, k) == (k - 1) \div g.nx

\* the coordinates of grid column i and grid row j
ExpectedX(g, i) == Add(g.minX, Mul(Num(i), Div(Sub(g.maxX, g.minX), Num(g.nx - 1))))
ExpectedY(g, j) == Add(g.minY, Mul(Num(j), Div(Sub(g.maxY, g.minY), Num(g.ny - 1))))

\* a rational that is an integer
IsInteger(a) == IsFinite(a) /\ a[2] = 1

\* (x, y) is a position of the base grid
AtGridPosition(g, x, y) ==
    /\ IsInteger(Div(Mul(Sub(x, g.minX), Num(g.nx - 1)), Sub(g.maxX, g.minX)))
    /\ IsInteger(Div(Mul(Sub(y, g.minY), Num(g.ny - 1)), Sub(g.maxY, g.minY)))

\* the drawing is one rectangle carrying a material
SingleMaterialRectangle ==
    /\ Len(drawingElements) = 1
    /\ drawingElements[1].type = "rectangle"
    /\ drawingElements[1].material # NoMaterial

\* solveHeatTransfer has returned, the sweep loop having ended with error <= tolerance
SolvedConverged == pc = "done" /\ Le(error, tolerance)

(***************************************************************************)
(* C1                                                                      *)
(***************************************************************************)
\* C1: for one single-material rectangle with exteriorTemp < interiorTemp, once
\* solveHeatTransfer has converged, every non-fixed grid node has a temperature
\* strictly between exteriorTemp and interiorTemp, the nodes of a column share
\* one temperature, and the temperature increases from a column to the next.
C1_LinearBetweenDirichletEdges ==
    LET g == MeshGrid IN
    (SolvedConverged /\ SingleMaterialRectangle /\ Lt(exteriorTemp, interiorTemp)) =>
        \A k \in 1..g.size :
            /\ ~mesh.nodes[k].fixed =>
                  /\ Lt(exteriorTemp, mesh.nodes[k].temperature)
                  /\ Lt(mesh.nodes[k].temperature, interiorTemp)
            /\ \A m \in 1..g.size :
                  /\ ColumnOf(g, m) = ColumnOf(g, k) =>
                        mesh.nodes[m].temperature = mesh.nodes[k].temperature
                  /\ ColumnOf(g, m) = ColumnOf(g, k) + 1 =>
                        Lt(mesh.nodes[k].temperature, mesh.nodes[m].temperature)

\* a converged solution of a single rectangle in which a free grid node is still
\* at exactly 0 although exteriorTemp is 5
C1_FreeNodeLeftAtZero ==
    LET g == MeshGrid IN
    /\ SolvedConverged
    /\ SingleMaterialRectangle
    /\ exteriorTemp = Num(5)
    /\ \E k \in 1..g.size :
          ~mesh.nodes[k].fixed /\ mesh.nodes[k].temperature = Zero

(***************************************************************************)
(* C2                                                                      *)
(***************************************************************************)
\* C2: maximum principle.  With exteriorTemp < interiorTemp, after
\* solveHeatTransfer returns every node (grid and refinement) has a temperature
\* within [exteriorTemp, interiorTemp], and minTemperature >= exteriorTemp and
\* maxTemperature <= interiorTemp.
C2_MaximumPrinciple ==
    (pc = "done" /\ Lt(exteriorTemp, interiorTemp)) =>
        /\ \A k \in 1..Len(mesh.nodes) :
              /\ Le(exteriorTemp, mesh.nodes[k].temperature)
              /\ Le(mesh.nodes[k].temperature, interiorTemp)
        /\ Ge(result.minTemperature, exteriorTemp)
        /\ Le(result.maxTemperature, interiorTemp)

\* a returned result in which a refinement node carries NaN
C2_RefinementNodeIsNaN ==
    LET g == MeshGrid IN
    /\ pc = "done"
    /\ \E k \in (g.size + 1)..Len(mesh.nodes) : IsNaN(mesh.nodes[k].temperature)
    /\ IsNaN(result.minTemperature)

(***************************************************************************)
(* C3                                                                      *)
(***************************************************************************)
\* C3: in every mesh returned by generateMesh, a node whose fixed flag is true
\* has isBoundary true, grid node or refinement node alike.
C3_FixedImpliesBoundary ==
    MeshReturned =>
        \A k \in 1..Len(mesh.nodes) : mesh.nodes[k].fixed => mesh.nodes[k].isBoundary

\* a returned mesh with fixed nodes and with refinement nodes
C3_Witness ==
    LET g == MeshGrid IN
    /\ pc = "meshed"
    /\ Len(mesh.nodes) > g.size
    /\ \E k \in 1..Len(mesh.nodes) : mesh.nodes[k].fixed

(***************************************************************************)
(* C4                                                                      *)
(***************************************************************************)
\* C4: in every mesh returned by generateMesh, each of the three node indices of
\* every element lies in 0..nodes.length-1, and the node stored at that index
\* has that id.
C4_ElementIndicesInRange ==
    MeshReturned =>
        \A e \in 1..Len(mesh.elements) :
            /\ Len(mesh.elements[e].nodes) = 3
            /\ \A m \in 1..3 :
                  /\ mesh.elements[e].nodes[m] \in 0..(Len(mesh.nodes) - 1)
                  /\ mesh.nodes[mesh.elements[e].nodes[m] + 1].id
                        = mesh.elements[e].nodes[m]

\* a returned mesh with elements, one of them touching the last grid node
C4_Witness ==
    LET g == MeshGrid IN
    /\ pc = "meshed"
    /\ Len(mesh.elements) > 0
    /\ \E e \in 1..Len(mesh.elements) : mesh.elements[e].nodes[3] = g.size - 1

(***************************************************************************)
(* C5                                                                      *)
(***************************************************************************)
\* C5: for a non-empty drawing, with nx = ceil(width/meshSize)+1 and
\* ny = ceil(height/meshSize)+1 over the expanded domain, the node list starts
\* with exactly nx*ny grid nodes (ids 0..nx*ny-1, at the grid positions, every
\* later node being off the grid) and there are exactly 2*(nx-1)*(ny-1)
\* elements, refinement nodes or not.
C5_GridCounts ==
    LET g == MeshGrid IN
    (MeshReturned /\ drawingElements # <<>>) =>
        /\ Len(mesh.nodes) >= g.size
        /\ \A k \in 1..g.size :
              /\ mesh.nodes[k].id = k - 1
              /\ mesh.nodes[k].x = ExpectedX(g, ColumnOf(g, k))
              /\ mesh.nodes[k].y = ExpectedY(g, RowOf(g, k))
        /\ \A k \in (g.size + 1)..Len(mesh.nodes) :
              ~AtGridPosition(g, mesh.nodes[k].x, mesh.nodes[k].y)
        /\ Len(mesh.elements) = 2 * (g.nx - 1) * (g.ny - 1)

\* a returned mesh of a non-empty drawing that holds refinement nodes
C5_Witness ==
    LET g == MeshGrid IN
    /\ pc = "meshed"
    /\ drawingElements # <<>>
    /\ Len(mesh.nodes) > g.size
    /\ Len(mesh.elements) = 2 * (g.nx - 1) * (g.ny - 1)

(***************************************************************************)
(* C6                                                                      *)
(***************************************************************************)
\* |x - minX| < 0.001 and |x - maxX| < 0.001, |y - minY| < 0.001, |y - maxY| < 0.001
AtMinX(g, node) == Lt(MathAbs(Sub(node.x, g.minX)), Rat(1, 1000))
AtMaxX(g, node) == Lt(MathAbs(Sub(node.x, g.maxX)), Rat(1, 1000))
AtMinY(g, node) == Lt(MathAbs(Sub(node.y, g.minY)), Rat(1, 1000))
AtMaxY(g, node) == Lt(MathAbs(Sub(node.y, g.maxY)), Rat(1, 1000))

\* C6: in every mesh returned by generateMesh, every node of the node list whose
\* x is the domain's minimum x (within 0.001) is exterior, fixed and at
\* exteriorTemp: corner nodes, refinement nodes and left-edge grid nodes.
C6_MinXNodesAreExterior ==
    LET g == MeshGrid IN
    pc = "meshed" =>
        \A k \in 1..Len(mesh.nodes) :
            AtMinX(g, mesh.nodes[k]) =>
                /\ mesh.nodes[k].boundaryType = "exterior"
                /\ mesh.nodes[k].fixed
                /\ mesh.nodes[k].temperature = exteriorTemp

\* a returned mesh with a refinement node on the domain's minimum x
C6_RefinementNodeAtMinX ==
    LET g == MeshGrid IN
    /\ pc = "meshed"
    /\ \E k \in (g.size + 1)..Len(mesh.nodes) :
          /\ mesh.nodes[k].x = g.minX
          /\ ~mesh.nodes[k].fixed
          /\ mesh.nodes[k].boundaryType = "none"

(***************************************************************************)
(* C7                                                                      *)
(***************************************************************************)
\* C7: in every mesh returned by generateMesh, every grid node on the right edge
\* (x = maxX) is interior, fixed and at interiorTemp, and no node is classified
\* both exterior and interior: an exterior node is not on the right edge and an
\* interior node is not on the left edge.
C7_RightEdgeIsInterior ==
    LET g == MeshGrid IN
    MeshReturned =>
        /\ \A k \in 1..g.size :
              mesh.nodes[k].x = g.maxX =>
                  /\ mesh.nodes[k].boundaryType = "interior"
                  /\ mesh.nodes[k].fixed
                  /\ mesh.nodes[k].temperature = interiorTemp
        /\ \A k \in 1..Len(mesh.nodes) :
              /\ mesh.nodes[k].boundaryType = "exterior" => ~AtMaxX(g, mesh.nodes[k])
              /\ mesh.nodes[k].boundaryType = "interior" => ~AtMinX(g, mesh.nodes[k])

\* a returned mesh whose last grid node, the top right corner, is interior
C7_Witness ==
    LET g == MeshGrid IN
    /\ pc = "meshed"
    /\ g.size > 0
    /\ mesh.nodes[g.size].x = g.maxX
    /\ mesh.nodes[g.size].boundaryType = "interior"
    /\ mesh.nodes[1].boundaryType = "exterior"

(***************************************************************************)
(* C8                                                                      *)
(***************************************************************************)
\* C8 as stated: every grid node on the top or bottom edge (y = minY or
\* y = maxY) is adiabatic and not fixed, the four corner nodes included.
C8_TopBottomAdiabaticWithCorners ==
    LET g == MeshGrid IN
    MeshReturned =>
        \A k \in 1..g.size :
            (mesh.nodes[k].y = g.minY \/ mesh.nodes[k].y = g.maxY) =>
                /\ mesh.nodes[k].boundaryType = "adiabatic"
                /\ ~mesh.nodes[k].fixed

\* C8 amended: every grid node on the top or bottom edge that is not within
\* 0.001 of the domain's minimum or maximum x is adiabatic and not fixed; the
\* four corner nodes are fixed, exterior on the left and interior on the right.
C8_TopBottomAdiabaticBetweenCorners ==
    LET g == MeshGrid IN
    MeshReturned =>
        \A k \in 1..g.size :
            (mesh.nodes[k].y = g.minY \/ mesh.nodes[k].y = g.maxY) =>
                IF AtMinX(g, mesh.nodes[k])
                  THEN mesh.nodes[k].boundaryType = "exterior" /\ mesh.nodes[k].fixed
                ELSE IF AtMaxX(g, mesh.nodes[k])
                  THEN mesh.nodes[k].boundaryType = "interior" /\ mesh.nodes[k].fixed
                ELSE mesh.nodes[k].boundaryType = "adiabatic" /\ ~mesh.nodes[k].fixed

\* a returned mesh with an adiabatic node next to a fixed corner on the bottom edge
C8_Witness ==
    LET g == MeshGrid IN
    /\ pc = "meshed"
    /\ g.size > 0
    /\ mesh.nodes[1].y = g.minY
    /\ mesh.nodes[1].fixed
    /\ mesh.nodes[2].y = g.minY
    /\ mesh.nodes[2].boundaryType = "adiabatic"
    /\ mesh.nodes[g.nx].fixed

(***************************************************************************)
(* C9                                                                      *)
(***************************************************************************)
\* centre of grid cell c (from 0): the midpoint of its bottom-left and top-right
\* grid nodes
CellBottomLeft(g, c) == (c \div (g.nx - 1)) * g.nx + (c % (g.nx - 1)) + 1
CellTopRight(g, c) == CellBottomLeft(g, c) + g.nx + 1
CellCentreX(g, c) ==
    Div(Add(mesh.nodes[CellBottomLeft(g, c)].x, mesh.nodes[CellTopRight(g, c)].x), Num(2))
CellCentreY(g, c) ==
    Div(Add(mesh.nodes[CellBottomLeft(g, c)].y, mesh.nodes[CellTopRight(g, c)].y), Num(2))

\* input regions (rectangles with a material) whose bounds contain the centre of
\* cell c, edges included
RegionsContaining(g, c) ==
    {r \in 1..Len(drawingElements) :
        /\ drawingElements[r].type = "rectangle"
        /\ drawingElements[r].material # NoMaterial
        /\ Le(MathMin(drawingElements[r].points[1].x, drawingElements[r].points[2].x),
              CellCentreX(g, c))
        /\ Le(CellCentreX(g, c),
              MathMax(drawingElements[r].points[1].x, drawingElements[r].points[2].x))
        /\ Le(MathMin(drawingElements[r].points[1].y, drawingElements[r].points[2].y),
              CellCentreY(g, c))
        /\ Le(CellCentreY(g, c),
              MathMax(drawingElements[r].points[1].y, drawingElements[r].points[2].y))}

\* C9: both triangles of every grid cell carry one material: that of the first
\* region in input order whose bounds (edges included) contain the cell's
\* centre, and the built-in Air of conductivity 0.025 when no region does; a
\* later region never wins over an earlier containing one.
C9_FirstContainingRegionWins ==
    LET g == MeshGrid IN
    MeshReturned =>
        \A c \in 0..((Len(mesh.elements) \div 2) - 1) :
            LET containing == RegionsContaining(g, c) IN
            /\ mesh.elements[2 * c + 1].material = mesh.elements[2 * c + 2].material
            /\ IF containing = {}
                 THEN /\ mesh.elements[2 * c + 1].material.name = "Air"
                      /\ mesh.elements[2 * c + 1].material.thermalConductivity
                            = Rat(25, 1000)
                 ELSE \E r \in containing :
                          /\ \A q \in containing : r <= q
                          /\ mesh.elements[2 * c + 1].material
                                = drawingElements[r].material

\* a returned mesh with a cell whose centre lies in two regions of different
\* materials, and a cell that no region contains
C9_Witness ==
    LET g == MeshGrid IN
    /\ pc = "meshed"
    /\ \E c \in 0..((Len(mesh.elements) \div 2) - 1) :
          \E r, q \in RegionsContaining(g, c) :
              r < q /\ drawingElements[r].material # drawingElements[q].material
    /\ \E c \in 0..((Len(mesh.elements) \div 2) - 1) : RegionsContaining(g, c) = {}

(***************************************************************************)
(* C10                                                                     *)
(***************************************************************************)
\* C10: every refinement node is appended after the nx*ny grid nodes with
\* fixed = false, isBoundary = false and no boundaryType, and no element
\* references it: every element node index is < nx*ny.
C10_RefinementNodesFreeAndUnreferenced ==
    LET g == MeshGrid IN
    MeshReturned =>
        /\ \A k \in (g.size + 1)..Len(mesh.nodes) :
              /\ mesh.nodes[k].id = k - 1
              /\ ~mesh.nodes[k].fixed
              /\ ~mesh.nodes[k].isBoundary
              /\ mesh.nodes[k].boundaryType = "none"
        /\ \A e \in 1..Len(mesh.elements) :
              \A m \in 1..3 : mesh.elements[e].nodes[m] < g.size

\* a returned mesh with refinement nodes and elements
C10_Witness ==
    LET g == MeshGrid IN
    /\ pc = "meshed"
    /\ Len(mesh.nodes) > g.size
    /\ Len(mesh.elements) > 0
    /\ ~mesh.nodes[Len(mesh.nodes)].isBoundary

(***************************************************************************)
(* C11                                                                     *)
(***************************************************************************)
\* the diagonal entry K[i-i] is missing or zero
DiagonalMissingOrZero(i) == ~HasKey(K, i, i) \/ K[i][i] = Zero

\* C11: solveHeatTransfer never divides by a zero or missing diagonal: no sweep
\* of the Gauss-Seidel loop completes over a non-fixed node whose K[i-i] is
\* zero or missing, so no temperature obtained from such a division is stored.
C11_NoSweepOverMissingDiagonal ==
    (pc \in {"solving", "done"} /\ iteration >= 1) =>
        \A i \in 0..(Len(mesh.nodes) - 1) :
            ~mesh.nodes[i + 1].fixed => ~DiagonalMissingOrZero(i)

\* a sweep has run over a non-fixed node without diagonal entry and has stored
\* the quotient NaN as its temperature
C11_QuotientStored ==
    /\ pc = "solving"
    /\ iteration = 1
    /\ \E i \in 0..(Len(mesh.nodes) - 1) :
          /\ ~mesh.nodes[i + 1].fixed
          /\ ~HasKey(K, i, i)
          /\ IsNaN(T[i])

(***************************************************************************)
(* C12                                                                     *)
(***************************************************************************)
\* C12: a returned result carries a flag converged, true when the loop ended
\* with the last sweep's maximum change within tolerance and false when the
\* iteration cap was reached with the change still above tolerance.
C12_ConvergedFlag ==
    pc = "done" =>
        /\ "converged" \in DOMAIN result
        /\ result.converged = Le(error, tolerance)

\* a result returned after the tolerance criterion was met, without any flag
C12_ConvergedResultUnmarked ==
    /\ pc = "done"
    /\ Le(error, tolerance)
    /\ Len(mesh.nodes) > 0
    /\ "converged" \notin DOMAIN result

(***************************************************************************)
(* C13                                                                     *)
(***************************************************************************)
\* C13: for an empty region list no result is ever returned: the pipeline stops
\* with InvalidGeometry before assembly.
C13_NoResultForEmptyDrawing ==
    drawingElements = <<>> => (pc \notin {"assembled", "solving", "done"} /\ ~result.returned)

\* the empty drawing meshed to no node and no element, solved and returned
C13_EmptyDrawingSolved ==
    /\ drawingElements = <<>>
    /\ pc = "done"
    /\ result.returned
    /\ Len(mesh.nodes) = 0
    /\ Len(mesh.elements) = 0
    /\ result.minTemperature = PosInf
    /\ result.maxTemperature = NegInf

(***************************************************************************)
(* C14                                                                     *)
(***************************************************************************)
\* the node temperatures of the mesh, in node order
NodeTemperatures == [k \in 1..Len(mesh.nodes) |-> mesh.nodes[k].temperature]

\* the second run, on its own fresh mesh, has returned for the same
\* maxIterations and tolerance as the first (the other inputs never change)
SecondRunReturned ==
    /\ pc = "done"
    /\ earlier.returned
    /\ ~earlier.shared
    /\ maxIterations = earlier.maxIterations
    /\ tolerance = earlier.tolerance

C15_NineLevelsBetweenExtrema ==
    pc = "done" =>
        /\ Len(result.isotherms) = 9
        /\ \A k \in 1..9 :
              /\ result.isotherms[k]
                    = Add(result.minTemperature,
                          Div(Mul(Num(k), Sub(result.maxTemperature,
                                              result.minTemperature)), Num(10)))
              /\ Lt(result.minTemperature, result.isotherms[k])
              /\ Lt(result.isotherms[k], result.maxTemperature)
        /\ \A k \in 1..8 : Lt(result.isotherms[k], result.isotherms[k + 1])

\* a returned result whose nine levels are all NaN
C15_LevelsAreNaN ==
    /\ pc = "done"
    /\ Len(mesh.nodes) > 0
    /\ Len(result.isotherms) = 9
    /\ \A k \in 1..9 : IsNaN(result.isotherms[k])

(***************************************************************************)
(* C16                                                                     *)
(***************************************************************************)
\* the solved temperatures of the nodes with isBoundary and boundaryType interior
InteriorSurfaceTemperatures ==
    {mesh.nodes[k].temperature :
        k \in {n \in 1..Len(mesh.nodes) :
                  mesh.nodes[n].isBoundary /\ mesh.nodes[n].boundaryType = "interior"}}

\* the least of a non-empty set of numbers; NaN if NaN is among them
Least(S) ==
    IF NaN \in S THEN NaN ELSE CHOOSE t \in S : \A u \in S : Le(t, u)

PlainSlab ==
    /\ \E w \in 1..MaxWidth : drawingElements = Slab(w)
    /\ exteriorTemp = Num(0)
    /\ interiorTemp = Num(20)

\* C17: for one single-material rectangle of conductivity 1 with exteriorTemp 0
\* and interiorTemp 20, the returned psiValue (totalHeatFlow minus
\* oneDimensionalHeatFlow) is close to 0: here, within 1 W/(m.K) of it.
C17_SlabPsiNearZero ==
    (pc = "done" /\ PlainSlab) => Le(MathAbs(result.psiValue), Num(1))

\* a plain slab solved with a psiValue further than 1 from 0
C17_SlabPsiFarFromZero ==
    /\ pc = "done"
    /\ PlainSlab
    /\ IsFinite(result.psiValue)
    /\ Gt(MathAbs(result.psiValue), Num(1))

(***************************************************************************)
(* C18                                                                     *)
(***************************************************************************)
\* a mesh without its temperatures: the node list in order with id, x, y, fixed,
\* isBoundary and boundaryType, and the element list
Topology(m) ==
    [nodes |-> [k \in 1..Len(m.nodes) |->
                   [id |-> m.nodes[k].id, x |-> m.nodes[k].x, y |-> m.nodes[k].y,
                    fixed |-> m.nodes[k].fixed, isBoundary |-> m.nodes[k].isBoundary,
                    boundaryType |-> m.nodes[k].boundaryType]],
     elements |-> m.elements]

\* C18: no step of solveHeatTransfer changes the topology of the mesh: the node
\* list keeps its length and order, every node its id, x, y, fixed, isBoundary
\* and boundaryType, and the element list is unchanged; only temperatures differ.
C18_TopologyUnchanged ==
    [][(pc \in {"meshed", "assembled", "solving"})
          => (Topology(mesh') = Topology(mesh))]_vars

\* solveHeatTransfer has returned and has changed the temperature of a node of
\* the mesh that generateMesh had returned
C18_Witness ==
    LET generated == generateMesh(drawingElements, meshSize, adaptiveFactor,
                                  interiorTemp, exteriorTemp)
    IN  /\ pc = "done"
        /\ ~earlier.returned
        /\ adaptiveFactor # Num(1)
        /\ Len(mesh.nodes) > 0
        /\ Topology(mesh) = Topology(generated)
        /\ \E k \in 1..Len(mesh.nodes) :
              mesh.nodes[k].temperature # generated.nodes[k].temperature

C20_EarlyExitOnlyOnConvergence ==
    (pc = "done" /\ iteration < maxIterations) =>
        /\ IsFinite(error)
        /\ Lt(error, tolerance)
        /\ \A k \in 1..Len(mesh.nodes) :
              ~mesh.nodes[k].fixed => IsFinite(mesh.nodes[k].temperature)

\* the loop has ended after one sweep of two allowed, with error NaN and NaN
\* stored for a non-fixed node
C20_EarlyExitOnNaN ==
    /\ pc = "done"
    /\ iteration = 1
    /\ maxIterations = 2
    /\ IsNaN(error)
    /\ \E k \in 1..Len(mesh.nodes) :
          ~mesh.nodes[k].fixed /\ IsNaN(mesh.nodes[k].temperature)

SweepStep == pc = "solving" /\ iteration' = iteration + 1
ReturnStep == pc = "solving" /\ pc' = "done"

\* the columns of row i, other than i, whose entry is used by the sweep
CoupledColumns(i) == {j \in DOMAIN K[i] \ {i} : Truthy(K[i][j])}

\* the sum over the columns cols of K[i,j] * T[j], T[j] being the value after
\* the step for j < i and the value before it for j > i
RECURSIVE CoupledSum(_, _)
CoupledSum(i, cols) ==
    IF cols = {} THEN Zero
    ELSE LET j == CHOOSE c \in cols : TRUE
         IN Add(Mul(K[i][j], IF j < i THEN T'[j] ELSE T[j]), CoupledSum(i, cols \ {j}))

\* C22: a sweep leaves the fixed nodes alone and gives every other node i the
\* value (F[i] - sum over j # i of K[i,j] * T[j]) / K[i,i], where T[j] is the
\* value already updated in this sweep for j < i and the value of the previous
\* sweep for j > i; the fixed nodes carry their prescribed temperature in the
\* result.
C22_SweepInPlaceAscending ==
    /\ [][SweepStep =>
            (\A i \in DOMAIN T :
                IF mesh.nodes[i + 1].fixed THEN T'[i] = T[i]
                ELSE T'[i] = Div(Sub(F[i], CoupledSum(i, CoupledColumns(i))),
                                 ToNumber(Entry(K, i, i))))]_vars
    /\ [][ReturnStep =>
            (\A k \in 1..Len(mesh.nodes) :
                mesh.nodes[k].fixed =>
                    mesh'.nodes[k].temperature = mesh.nodes[k].temperature)]_vars

\* after the first sweep: a free node was given a new value, a later free node
\* coupled to it has been updated too, and a fixed node is present
C22_Witness ==
    /\ pc = "solving"
    /\ iteration = 1
    /\ \E i, j \in DOMAIN T :
          /\ j < i
          /\ ~mesh.nodes[i + 1].fixed
          /\ ~mesh.nodes[j + 1].fixed
          /\ HasKey(K, i, j)
          /\ Truthy(K[i][j])
          /\ T[j] # mesh.nodes[j + 1].temperature
          /\ T[i] # mesh.nodes[i + 1].temperature
    /\ \E k \in DOMAIN T : mesh.nodes[k + 1].fixed /\ T[k] = mesh.nodes[k + 1].temperature

(***************************************************************************)
(* C23                                                                     *)
(***************************************************************************)
\* C23: once the boundary conditions are applied, every fixed node i has
\* K[i,i] = 1 exactly, no entry K[i,j] or K[j,i] for j # i, and F[i] equal to
\* its prescribed temperature, whatever its boundaryType.
C23_FixedRowsAreIdentity ==
    pc \in {"solving", "done"} =>
        \A i \in DOMAIN K :
            mesh.nodes[i + 1].fixed =>
                /\ DOMAIN K[i] = {i}
                /\ K[i][i] = Num(1)
                /\ \A r \in DOMAIN K \ {i} : i \notin DOMAIN K[r]
                /\ F[i] = mesh.nodes[i + 1].temperature

\* the boundary conditions have run on a mesh whose assembled matrix couples a
\* fixed interior node and a fixed exterior node to other nodes
C23_Witness ==
    /\ pc = "solving"
    /\ iteration = 0
    /\ LET assembled == Assemble(mesh)
       IN \A side \in {"interior", "exterior"} :
             \E i \in DOMAIN K :
                /\ mesh.nodes[i + 1].fixed
                /\ mesh.nodes[i + 1].boundaryType = side
                /\ DOMAIN assembled[i] \ {i} # {}
                /\ assembled[i][i] # Num(1)

(***************************************************************************)
(* C24                                                                     *)
(***************************************************************************)
\* what the boundary conditions have added to the diagonal and to the load of
\* node i, the load being 0 after assembly
DiagonalAdded(assembled, i) == Sub(ToNumber(Entry(K, i, i)), ToNumber(Entry(assembled, i, i)))

\* C24: for a non-fixed boundary node the boundary conditions add 7.7 to the
\* diagonal and 7.7 times the interior reference temperature to the load when
\* the node is interior, 25 and 25 times the exterior reference temperature
\* when it is exterior, and nothing when it is adiabatic; the reference
\* temperatures are the design temperatures given to the program.
C24_SurfaceCoefficientsWithReference ==
    pc = "solving" =>
        LET assembled == Assemble(mesh)
        IN \A i \in DOMAIN K :
              (~mesh.nodes[i + 1].fixed /\ mesh.nodes[i + 1].isBoundary) =>
                  IF mesh.nodes[i + 1].boundaryType = "interior"
                    THEN /\ DiagonalAdded(assembled, i) = Rat(77, 10)
                         /\ F[i] = Mul(Rat(77, 10), interiorTemp)
                  ELSE IF mesh.nodes[i + 1].boundaryType = "exterior"
                    THEN /\ DiagonalAdded(assembled, i) = Num(25)
                         /\ F[i] = Mul(Num(25), exteriorTemp)
                  ELSE /\ DiagonalAdded(assembled, i) = Zero
                       /\ F[i] = Zero

\* a free exterior node has been given 25 on the diagonal and a load of 0 while
\* the exterior design temperature is 5
C24_ExteriorLoadIgnoresDesignTemperature ==
    /\ pc = "solving"
    /\ exteriorTemp = Num(5)
    /\ \E i \in DOMAIN K :
          /\ ~mesh.nodes[i + 1].fixed
          /\ mesh.nodes[i + 1].isBoundary
          /\ mesh.nodes[i + 1].boundaryType = "exterior"
          /\ DiagonalAdded(Assemble(mesh), i) = Num(25)
          /\ F[i] = Zero

(***************************************************************************)
(* C25                                                                     *)
(***************************************************************************)
\* the distance between p and q is less than r
Closer(p, q, r) == DistLt(p.x, p.y, q.x, q.y, r)

\* p, a defining point of region i, lies within the tolerance of a defining
\* point of one of the regions others
NearRegion(p, others) ==
    \E j \in others : \E b \in 1..Len(drawingElements[j].points) :
        Closer(p, drawingElements[j].points[b], JunctionTolerance)

\* (a): every junction is a defining point of a region that lies within the
\* tolerance of a defining point of a different region
JunctionsAreNearPoints ==
    \A k \in 1..Len(junctions) :
        \E i \in 1..Len(drawingElements) : \E a \in 1..Len(drawingElements[i].points) :
            /\ junctions[k] = Pt(drawingElements[i].points[a].x, drawingElements[i].points[a].y)
            /\ NearRegion(drawingElements[i].points[a], (1..Len(drawingElements)) \ {i})

\* (b): no two junctions are closer than the tolerance
JunctionsAreApart ==
    \A k, l \in 1..Len(junctions) :
        k # l => ~Closer(junctions[k], junctions[l], JunctionTolerance)

\* some junction is less than r away from p
JunctionWithin(p, r) == \E k \in 1..Len(junctions) : Closer(junctions[k], p, r)

\* C25 as stated: (a), (b), and (c) every defining point within 0.5 mm of a
\* point of a different region is within 0.5 mm of a returned junction; a
\* single region yields no junction.
C25_EveryNearPointHasJunction ==
    pc = "found" =>
        /\ JunctionsAreNearPoints
        /\ JunctionsAreApart
        /\ \A i \in 1..Len(drawingElements) : \A a \in 1..Len(drawingElements[i].points) :
              NearRegion(drawingElements[i].points[a], (1..Len(drawingElements)) \ {i})
                  => JunctionWithin(drawingElements[i].points[a], JunctionTolerance)
        /\ (Len(drawingElements) = 1 => junctions = <<>>)

\* C25, amended: (a), (b), and (c) every defining point within 0.5 mm of a
\* point of a region later in the list is within 0.5 mm of a returned junction,
\* and every defining point within 0.5 mm of a point of any other region is
\* less than 1 mm from a returned junction; a single region yields no junction.
C25_NearPointsWithinTwiceTolerance ==
    pc = "found" =>
        /\ JunctionsAreNearPoints
        /\ JunctionsAreApart
        /\ \A i \in 1..Len(drawingElements) : \A a \in 1..Len(drawingElements[i].points) :
              /\ NearRegion(drawingElements[i].points[a], (i + 1)..Len(drawingElements))
                    => JunctionWithin(drawingElements[i].points[a], JunctionTolerance)
              /\ NearRegion(drawingElements[i].points[a], (1..Len(drawingElements)) \ {i})
                    => JunctionWithin(drawingElements[i].points[a], Num(1))
        /\ (Len(drawingElements) = 1 => junctions = <<>>)

\* findJunctions has returned one junction for two regions, and a defining
\* point of the second region is near a point of the first but 0.5 mm or more
\* from the junction
C25_Witness ==
    /\ pc = "found"
    /\ Len(drawingElements) = 2
    /\ Len(junctions) = 1
    /\ \E a \in 1..Len(drawingElements[2].points) :
          /\ NearRegion(drawingElements[2].points[a], {1})
          /\ ~JunctionWithin(drawingElements[2].points[a], JunctionTolerance)
          /\ JunctionWithin(drawingElements[2].points[a], Num(1))

(***************************************************************************)
(* C26                                                                     *)
(***************************************************************************)
\* r is x rounded to 3 decimal places: a whole number of thousandths, and no
\* other is nearer to x
RoundedToThousandth(r, x) ==
    /\ IsFinite(r)
    /\ Mul(r, Num(1000))[2] = 1
    /\ Le(MathAbs(Sub(r, x)), Rat(1, 2000))

\* element back is element sent with nothing changed but the coordinates,
\* which are rounded
SameButRounded(back, sent) ==
    /\ back.type = sent.type
    /\ back.material = sent.material
    /\ Len(back.points) = Len(sent.points)
    /\ \A k \in 1..Len(sent.points) :
          /\ RoundedToThousandth(back.points[k].x, sent.points[k].x)
          /\ RoundedToThousandth(back.points[k].y, sent.points[k].y)

\* C26: importDrawing(exportDrawing(elements)) returns the elements in the
\* same order, every field unchanged but the coordinates, which are rounded to
\* 3 decimal places, and exporting the list again gives the same text; for a
\* text that is not JSON or has no elements array importDrawing returns [].
C26_ExportImportRoundTrip ==
    pc = "imported" =>
        IF exported.kind = "json" /\ exported.shape = "array"
        THEN /\ Len(imported) = Len(drawingElements)
             /\ \A k \in 1..Len(drawingElements) :
                   SameButRounded(imported[k], drawingElements[k])
             /\ exportDrawing(imported) = exported
        ELSE imported = <<>>

\* a drawing whose material had the conductivity NaN has been exported and
\* imported: the conductivity read back is null, everything else is as claimed
C26_ConductivityReadBackAsNull ==
    /\ pc = "imported"
    /\ exported.kind = "json"
    /\ Len(imported) = Len(drawingElements)
    /\ exportDrawing(imported) = exported
    /\ \E k \in 1..Len(drawingElements) :
          /\ IsNaN(drawingElements[k].material.thermalConductivity)
          /\ imported[k].material.thermalConductivity = Null
          /\ imported[k].material # drawingElements[k].material

(***************************************************************************)
(* C27                                                                     *)
(***************************************************************************)
\* C27: in a mesh produced by generateMesh every node whose boundaryType is
\* interior or exterior is fixed; the solver therefore never takes the
\* convective branch on it, and the diagonal and the load of every node that is
\* not fixed are those of the assembly.
C27_NoConvectiveBranchOnGeneratedMesh ==
    /\ pc # "idle" =>
          \A k \in 1..Len(mesh.nodes) :
              /\ mesh.nodes[k].boundaryType \in {"interior", "exterior"} => mesh.nodes[k].fixed
              /\ BoundaryBranch(mesh.nodes[k]) \in {"dirichlet", "none"}
    /\ pc = "solving" =>
          LET assembled == Assemble(mesh)
          IN \A i \in DOMAIN K :
                ~mesh.nodes[i + 1].fixed =>
                    /\ Entry(K, i, i) = Entry(assembled, i, i)
                    /\ F[i] = Zero

\* the boundary conditions have run on a generated mesh that has interior and
\* exterior nodes and boundary nodes that are not fixed
C27_Witness ==
    /\ pc = "solving"
    /\ \E k \in 1..Len(mesh.nodes) : mesh.nodes[k].boundaryType = "interior"
    /\ \E k \in 1..Len(mesh.nodes) : mesh.nodes[k].boundaryType = "exterior"
    /\ \E k \in 1..Len(mesh.nodes) :
          /\ mesh.nodes[k].isBoundary
          /\ ~mesh.nodes[k].fixed
          /\ HasKey(K, k - 1, k - 1)

C29_ResultFromCurrentDrawing ==
    page.simulationResult.present => page.simulationResult.from = page.drawingElements

\* no callback is pending and the component shows a result computed from a
\* drawing other than the one it holds: the drawing changed between the click
\* and the callback
C29_StaleResultKept ==
    /\ pc = "idle"
    /\ timers = <<>>
    /\ ~page.isSimulating
    /\ page.simulationResult.present
    /\ page.simulationResult.from = Single(1)
    /\ page.drawingElements = Slab(1)
    /\ page.showSimulation

(***************************************************************************)
(* C30                                                                     *)
(***************************************************************************)
\* C30: a runSimulation that has set isSimulating is followed by isSimulating
\* being false again, whether the call returns or throws; showSimulation
\* becomes true only when a result is there; and while isSimulating is true the
\* button is disabled, so that at most one callback is pending and isSimulating
\* is true exactly while one is.
C30_SimulatingEndsOnePending ==
    /\ (page.isSimulating ~> ~page.isSimulating)
    /\ [][(~page.showSimulation /\ page'.showSimulation) =>
              page'.simulationResult.present]_vars
    /\ [](page.isSimulating => SimulateDisabled(page.isSimulating, page.drawingElements))
    /\ [](Len(timers) <= 1)
    /\ [](page.isSimulating <=> timers # <<>>)

\* a run has returned a result, and a later run on an element without points
\* has thrown and has ended with isSimulating false
C30_Witness ==
    /\ pc = "idle"
    /\ ~page.isSimulating
    /\ timers = <<>>
    /\ page.newBridge.fRsi # Rat(3, 4)
    /\ drawingElements = Malformed
    /\ page.drawingElements = Malformed

====
